---- MODULE Spec2Model ----
(***************************************************************************)
(* Model of the agent stream dispatcher (backend/agent/dispatcher.py):     *)
(* one turn of AgentDispatcher.run, with the model chat client, the tool   *)
(* broker (composio_service.execute_tool) and the per-app capability       *)
(* services as its environment.                                            *)
(***************************************************************************)
EXTENDS Integers, Sequences, FiniteSets, TLC

(***************************************************************************)
(* Bounds of the model and program constants.                              *)
(***************************************************************************)
\* Largest number of tool calls in one model response.
MaxCalls == 2
\* Number of tool calls the model may compose afresh during one turn;
\* re-emitting the tool calls of its previous response is free.
MaxFresh == 2
\* DispatcherContext.max_iterations
max_iterations == 5
\* _send_message_with_retry(max_retries=2)
max_retries == 2

None == "None"

Range(s) == {s[i] : i \in 1..Len(s)}

Min(a, b) == IF a < b THEN a ELSE b

\* All sequences over S of length lo..hi.
SeqsOf(S, lo, hi) == UNION {[1..n -> S] : n \in lo..hi}

(***************************************************************************)
(* Tool calls the model can emit (llm/types.py ToolCall).  args is the     *)
(* argument dict in insertion order, as a sequence of <<key, value>>.      *)
(***************************************************************************)
ToolCall(name, args, call_id) == [name |-> name, args |-> args, call_id |-> call_id]

linRead == ToolCall("LINEAR_LIST_LINEAR_ISSUES", <<<<"teamId", "T1">>>>, "c1")
linWrite == ToolCall("LINEAR_CREATE_LINEAR_ISSUE", <<<<"title", "Bug">>>>, "c2")
slackRead == ToolCall("SLACK_FETCH_CONVERSATION_HISTORY", <<<<"channel", "C123">>>>, "c3")
slackWrite == ToolCall("SLACK_SEND_MESSAGE", <<<<"channel", "C1">>, <<"text", "ping">>>>, "c4")
\* An approved slack write whose arguments differ from those of slackWrite.
slackWriteBad == ToolCall("SLACK_SEND_MESSAGE", <<<<"channel", "C_BAD">>, <<"text", "ping">>>>, "c5")

\* The tool calls the model draws its responses from in the main specification.
CoreCalls == {linRead, linWrite, slackRead, slackWrite}

\* Calls of an app that has no capability service.
jiraGet == ToolCall("JIRA_GET_ISSUE", <<<<"title", "J1">>>>, "c6")
jiraCreate == ToolCall("JIRA_CREATE_ISSUE", <<<<"title", "Bug">>>>, "c7")

\* slackWrite with its argument map given in the other key order.
slackWriteSwapped == ToolCall("SLACK_SEND_MESSAGE", <<<<"text", "ping">>, <<"channel", "C1">>>>, "c8")

\* The tool calls of a model that repeats a write with its arguments in another order.
SwappedArgsCalls == {linRead, slackWrite, slackWriteSwapped}

\* The tool calls the model draws its responses from when such an app is connected.
OtherAppCalls == {linRead, jiraGet, jiraCreate}

(***************************************************************************)
(* agent/common.py                                                         *)
(***************************************************************************)
\* map_tool_to_app: prefix table, else the lowercase token before the first "_".
map_tool_to_app(tool_name) ==
    CASE tool_name \in {"LINEAR_LIST_LINEAR_ISSUES", "LINEAR_CREATE_LINEAR_ISSUE"} -> "linear"
      [] tool_name \in {"SLACK_FETCH_CONVERSATION_HISTORY", "SLACK_SEND_MESSAGE"} -> "slack"
      [] tool_name \in {"GITHUB_CREATE_ISSUE"} -> "github"
      [] tool_name \in {"JIRA_GET_ISSUE", "JIRA_CREATE_ISSUE"} -> "jira"
      [] OTHER -> "unknown"

format_app_name(app_id) ==
    CASE app_id = "github" -> "GitHub"
      [] app_id = "linear" -> "Linear"
      [] app_id = "slack" -> "Slack"
      [] app_id = "jira" -> "Jira"
      [] OTHER -> app_id

\* The user inputs of the model, with what detect_apps_from_input and
\* looks_like_tool_request compute on each of them.
UserInputs == {"Check Linear and Slack", "hello"}

detect_apps_from_input(user_input) ==
    CASE user_input = "Check Linear and Slack" -> <<"linear", "slack">>
      [] user_input = "Create a ticket" -> <<"linear">>
      [] OTHER -> <<>>

looks_like_tool_request(user_input) ==
    user_input \in {"Check Linear and Slack", "Create a ticket"}

(***************************************************************************)
(* Capability services: is_write_action of each service, evaluated on the  *)
(* tool names above (normalize_tool_slug leaves these slugs unchanged).    *)
(***************************************************************************)
\* LinearService.is_write_action: "create_", "update_", "delete_", "remove_",
\* "manage_" anywhere in the lowercased name (any app's tool), or a mutation query.
linear_is_write_action(tool_name, args) ==
    tool_name \in {"LINEAR_CREATE_LINEAR_ISSUE", "GITHUB_CREATE_ISSUE", "JIRA_CREATE_ISSUE"}

\* SlackService.is_write_action: membership in an explicit set of slack slugs.
slack_is_write_action(tool_name, args) ==
    tool_name \in {"SLACK_SEND_MESSAGE"}

\* NotionService.is_write_action: name starts with a "notion_<verb>_" prefix.
notion_is_write_action(tool_name, args) == FALSE

\* GitHubService.is_write_action: name starts with a "github_<verb>_" prefix.
github_is_write_action(tool_name, args) ==
    tool_name \in {"GITHUB_CREATE_ISSUE"}

\* GmailService.is_write_action: name starts with a "gmail_<verb>_" prefix.
gmail_is_write_action(tool_name, args) == FALSE

\* GoogleCalendarService.is_write_action: a write token ("create_", "update_",
\* "move", "insert", ...) anywhere in the lowercased name.
calendar_is_write_action(tool_name, args) ==
    tool_name \in {"LINEAR_CREATE_LINEAR_ISSUE", "GITHUB_CREATE_ISSUE", "JIRA_CREATE_ISSUE"}

(***************************************************************************)
(* dispatcher.py helpers                                                   *)
(***************************************************************************)
\* Alphabetical rank of the argument keys, the order json.dumps(sort_keys=True) uses.
KeyOrder == <<"channel", "teamId", "text", "title">>

KeyRank(k) == CHOOSE i \in 1..Len(KeyOrder) : KeyOrder[i] = k

\* json.dumps(args, sort_keys=True): the pairs of args ordered by key.
RECURSIVE SortedInsert(_, _)
SortedInsert(sorted, pair) ==
    IF sorted = <<>> THEN <<pair>>
    ELSE IF KeyRank(pair[1]) < KeyRank(Head(sorted)[1]) THEN <<pair>> \o sorted
    ELSE <<Head(sorted)>> \o SortedInsert(Tail(sorted), pair)

\* Fault variant of canonical_json: the pairs stay in insertion order (no sort_keys).
canonical_json_insertion_order(args) == args

RECURSIVE canonical_json(_)
canonical_json(args) ==
    IF args = <<>> THEN <<>>
    ELSE SortedInsert(canonical_json(Tail(args)), Head(args))

\* executed_key = (tool_name, json.dumps(args, sort_keys=True))
executed_key(tool_name, args) == <<tool_name, canonical_json(args)>>

tool_status_name_for_app(app_id) ==
    CASE app_id = "github" -> "GITHUB_PRECHECK"
      [] app_id = "slack" -> "SLACK_PRECHECK"
      [] app_id = "linear" -> "LINEAR_PRECHECK"
      [] app_id = "jira" -> "JIRA_PRECHECK"
      [] OTHER -> "UNKNOWN_PRECHECK"

\* _is_rate_limit_error on the error kinds of the model.
is_rate_limit_error(exc) == exc = "rate_limit"

RECURSIVE retry_loop_one_more(_, _)
\* Fault variant of retry_loop: the attempt budget is checked one attempt late.
retry_loop_one_more(outcomes, attempt) ==
    IF attempt > max_retries + 1 THEN [ok |-> FALSE, error |-> None, calls |-> attempt]
    ELSE IF outcomes[attempt + 1] = "ok" THEN [ok |-> TRUE, error |-> None, calls |-> attempt + 1]
    ELSE IF ~is_rate_limit_error(outcomes[attempt + 1]) \/ attempt >= max_retries + 1
         THEN [ok |-> FALSE, error |-> outcomes[attempt + 1], calls |-> attempt + 1]
    ELSE retry_loop_one_more(outcomes, attempt + 1)

\* _send_message_with_retry: outcomes[k] is what the k-th call of send_fn does
\* ("ok", or the error it raises).  Returns the result and the number of calls made.
RECURSIVE retry_loop(_, _)
retry_loop(outcomes, attempt) ==
    IF attempt > max_retries THEN [ok |-> FALSE, error |-> None, calls |-> attempt]
    ELSE IF outcomes[attempt + 1] = "ok" THEN [ok |-> TRUE, error |-> None, calls |-> attempt + 1]
    ELSE IF ~is_rate_limit_error(outcomes[attempt + 1]) \/ attempt >= max_retries
         THEN [ok |-> FALSE, error |-> outcomes[attempt + 1], calls |-> attempt + 1]
    ELSE retry_loop(outcomes, attempt + 1)

send_message_with_retry(outcomes) == retry_loop(outcomes, 0)

(***************************************************************************)
(* State: the turn's input, the DispatcherContext fields, the position of  *)
(* run(), the outputs (event stream, broker calls, model round-trips) and  *)
(* the environment's remaining choices.                                    *)
(***************************************************************************)
VARIABLES
    user_input,             \* run(user_input=...)
    confirmed_tool,         \* run(confirmed_tool=...)
    pc,                     \* where run() is: the DispatchPhase, or before/after the loop
    iteration,
    response,               \* context.response
    action_performed,
    write_action_executed,
    pending_read_actions,
    pending_write_actions,
    last_searching_app_id,
    completed_write_apps,
    app_read_status,
    app_write_executing,
    executed_write_keys,
    apps_with_tool_status,
    early_summary_sent,
    tool_nudge_sent,
    should_nudge_for_tools,
    required_apps,
    missing_app_nudge_sent,
    involved_apps,
    called_apps,
    proposal_queue,
    current_read_action,    \* <<>> for None, else <<read action>>
    exit_early,
    read_actions,           \* _handle_read's local list: the reads of the batch still to run
    events,                 \* the event stream run() has yielded
    broker_calls,           \* every composio_service.execute_tool call
    chat_log,               \* every model round-trip (one _send_message_with_retry each)
    planning_passes,        \* Planning passes that inspected a model response
    palette,                \* the tool calls the model composes responses from
    fresh_left,             \* tool calls the model may still compose afresh
    last_calls,             \* tool calls of the model's latest non-empty response
    broker_result,          \* what execute_tool does for each slug this turn, once it was called
    other_turn,             \* the suspended run() of a second turn on the same dispatcher, if any
    composio,               \* the ComposioService: its cache, the clock and the execute_tool calls made
    retry                   \* one call of _send_message_with_retry on its own: what send_fn does, and the result

ctx_vars == <<iteration, response, action_performed, write_action_executed, pending_read_actions, pending_write_actions, last_searching_app_id, completed_write_apps, app_read_status, app_write_executing, executed_write_keys, apps_with_tool_status, early_summary_sent, tool_nudge_sent, should_nudge_for_tools, required_apps, missing_app_nudge_sent, involved_apps, called_apps, proposal_queue, current_read_action, exit_early>>

env_vars == <<palette, fresh_left, last_calls, broker_result, other_turn, composio, retry>>

vars == <<user_input, confirmed_tool, pc, ctx_vars, read_actions, events, broker_calls, chat_log, planning_passes, env_vars>>

AppIds == {"linear", "slack", "github", "jira", "unknown"}

(***************************************************************************)
(* Events of the stream (spec section 6 / the dicts run() yields).         *)
(***************************************************************************)
EarlySummary(content, app_id, involved) == [type |-> "early_summary", content |-> content, app_id |-> app_id, involved_apps |-> involved]

ToolStatus(tool, status, app_id, involved) == [type |-> "tool_status", tool |-> tool, status |-> status, app_id |-> app_id, involved_apps |-> involved]

\* The content of a message event: which of the dispatcher's texts it is, and the
\* model text, app name or error text the dispatcher puts into it.
Content(kind, text, app, error) == [kind |-> kind, text |-> text, app |-> app, error |-> error]

Message(content, performed) == [type |-> "message", content |-> content, action_performed |-> performed]

\* "I'm temporarily rate-limited by the model provider. Please retry in a minute."
RateLimitedMessage == Message(Content("rate_limited", 0, None, None), None)

\* Fault variant of ErrorOccurredMessage: the rate-limit text is yielded instead.
ErrorOccurredMessage_as_rate_limit(exc) == RateLimitedMessage

\* run()'s except clause: "An error occurred: <exc>".
ErrorOccurredMessage(exc) == Message(Content("error_occurred", 0, None, exc), None)

(***************************************************************************)
(* Environment: what the model client and the broker may do next.          *)
(***************************************************************************)
AllOk == [k \in 1..(max_retries + 1) |-> "ok"]

\* Every call rate-limited: the retries are exhausted.
AllRateLimited == [k \in 1..(max_retries + 1) |-> "rate_limit"]

\* The first call raises an error that is no rate limit.
ModelError == [k \in 1..(max_retries + 1) |-> IF k = 1 THEN "model_error" ELSE "ok"]

\* The tool_calls of the model's next response.
ModelCalls == {<<>>} \cup (IF last_calls # <<>> THEN {last_calls} ELSE {}) \cup SeqsOf(palette, 1, Min(MaxCalls, fresh_left))

\* One model round-trip: what each call of send_fn does, and the tool calls of the
\* response when one arrives.  A failed round-trip ends the turn.
RoundTrips ==
    {[outcomes |-> AllOk, calls |-> c] : c \in ModelCalls}
    \cup {[outcomes |-> AllRateLimited, calls |-> <<>>], [outcomes |-> ModelError, calls |-> <<>>]}

ToolNames == {"LINEAR_LIST_LINEAR_ISSUES", "LINEAR_CREATE_LINEAR_ISSUE", "SLACK_FETCH_CONVERSATION_HISTORY", "SLACK_SEND_MESSAGE", "GITHUB_CREATE_ISSUE", "JIRA_GET_ISSUE", "JIRA_CREATE_ISSUE"}

\* execute_tool returns a result, returns one with successful = False (an object
\* with attributes data and successful, or a dict with those keys), or raises;
\* within one turn it does the same each time it is called with the same slug.
BrokerOutcomes(slug) == IF broker_result[slug] = "unset" THEN {"ok", "unsuccessful", "unsuccessful_dict", "raise"} ELSE {broker_result[slug]}

\* The LLMResponse of a round-trip; its text is distinct per round-trip.
Response(rt) == [tool_calls |-> rt.calls, text |-> Len(chat_log) + 1]

\* context.response before the first round-trip.
NoResponse == [tool_calls |-> <<>>, text |-> 0]

\* No model round-trip (for EnvAfter).
NoTrip == [outcomes |-> AllOk, calls |-> <<>>]

\* One entry of chat_log: what was sent, how many times send_fn was called, whether a
\* response arrived, and the tool calls of the response the dispatcher keeps (rt is
\* NoTrip for the response to a read that is not the last of its batch, which the
\* loop of _handle_read overwrites unread).
ChatEntry(kind, tool, payload, call_id, r, rt) == [kind |-> kind, tool |-> tool, payload |-> payload, call_id |-> call_id, calls |-> r.calls, ok |-> r.ok, reply |-> IF r.ok THEN rt.calls ELSE <<>>]

\* The environment after a round-trip rt (NoTrip: none) and a call of the broker
\* for slug with outcome b (None: no broker call).
EnvAfter(rt, slug, b) ==
    /\ palette' = palette
    /\ fresh_left' = IF rt.calls = <<>> \/ rt.calls = last_calls THEN fresh_left ELSE fresh_left - Len(rt.calls)
    /\ last_calls' = IF rt.calls = <<>> THEN last_calls ELSE rt.calls
    /\ broker_result' = IF b = None THEN broker_result ELSE [broker_result EXCEPT ![slug] = b]
    /\ other_turn' = other_turn
    /\ composio' = composio
    /\ retry' = retry

(***************************************************************************)
(* Initial states: DispatcherContext(user_input, user_id) with its field   *)
(* defaults, for each turn input and each environment.                     *)
(***************************************************************************)
\* confirmed_tool dicts: a proposal the user approved on an earlier turn.
ConfirmedTool(tc) == [tool |-> tc.name, args |-> tc.args, tool_call_id |-> tc.call_id, app_id |-> map_tool_to_app(tc.name)]

\* run(confirmed_tool=None)
NoConfirmedTool == [tool |-> None, args |-> <<>>, tool_call_id |-> None, app_id |-> None]

HasConfirmedTool == confirmed_tool.tool # None

InitContext ==
    /\ iteration = 0
    /\ response = NoResponse
    /\ action_performed = None
    /\ write_action_executed = FALSE
    /\ pending_read_actions = <<>>
    /\ pending_write_actions = <<>>
    /\ last_searching_app_id = None
    /\ completed_write_apps = {}
    /\ app_read_status = [a \in AppIds |-> None]
    /\ app_write_executing = {}
    /\ executed_write_keys = {}
    /\ apps_with_tool_status = {}
    /\ early_summary_sent = FALSE
    /\ tool_nudge_sent = FALSE
    /\ should_nudge_for_tools = FALSE
    /\ required_apps = <<>>
    /\ missing_app_nudge_sent = FALSE
    /\ involved_apps = <<>>
    /\ called_apps = {}
    /\ proposal_queue = <<>>
    /\ current_read_action = <<>>
    /\ exit_early = FALSE

InitWith(inputs, confirmed, palettes) ==
    /\ \/ user_input \in inputs /\ confirmed_tool = NoConfirmedTool
       \/ user_input = "__CONFIRMED__" /\ confirmed_tool \in confirmed
    /\ pc = "send_initial"
    /\ InitContext
    /\ read_actions = <<>>
    /\ events = <<>>
    /\ broker_calls = <<>>
    /\ chat_log = <<>>
    /\ planning_passes = 0
    /\ palette \in palettes
    /\ fresh_left = MaxFresh
    /\ last_calls = <<>>
    /\ broker_result = [slug \in ToolNames |-> "unset"]

\* The frame of a run() that has not started.
InitialFrame(input, confirmed, calls) == [user_input |-> input, confirmed_tool |-> confirmed, pc |-> "send_initial", iteration |-> 0, response |-> NoResponse, action_performed |-> None, write_action_executed |-> FALSE, pending_read_actions |-> <<>>, pending_write_actions |-> <<>>, last_searching_app_id |-> None, completed_write_apps |-> {}, app_read_status |-> [a \in AppIds |-> None], app_write_executing |-> {}, executed_write_keys |-> {}, apps_with_tool_status |-> {}, early_summary_sent |-> FALSE, tool_nudge_sent |-> FALSE, should_nudge_for_tools |-> FALSE, required_apps |-> <<>>, missing_app_nudge_sent |-> FALSE, involved_apps |-> <<>>, called_apps |-> {}, proposal_queue |-> <<>>, current_read_action |-> <<>>, exit_early |-> FALSE, read_actions |-> <<>>, events |-> <<>>, broker_calls |-> <<>>, chat_log |-> <<>>, planning_passes |-> 0, palette |-> calls, fresh_left |-> MaxFresh, last_calls |-> <<>>, broker_result |-> [slug \in ToolNames |-> "unset"]]

(***************************************************************************)
(* services/composio_service.py: execute_tool and its in-memory cache.     *)
(* Pagination, history filtering and the authentication refresh of         *)
(* _execute_with_auth_retry are left out: they change how often the        *)
(* executor is invoked by one call, never whether it is invoked.           *)
(***************************************************************************)
\* execute_tool calls made in one run of the cache specification.
MaxToolCalls == 2
\* Clock steps in one run, and the seconds of one step.
MaxTicks == 2
TickSeconds == 150

\* self._cache_ttl_seconds
cache_ttl_seconds == 300

READ_ONLY_CACHEABLE_TOOLS == {"LINEAR_GET_ALL_LINEAR_TEAMS", "LINEAR_LIST_LINEAR_TEAMS", "LINEAR_LIST_LINEAR_STATES", "LINEAR_LIST_LINEAR_LABELS", "SLACK_LIST_ALL_CHANNELS"}

\* normalize_tool_slug: a canonical slug passes through, an unknown slug is uppercased
\* (tests/test_composio_tool_aliases.py).
normalize_tool_slug(slug) ==
    CASE slug = "linear_list_linear_teams" -> "LINEAR_LIST_LINEAR_TEAMS"
      [] OTHER -> slug

\* The slugs and argument dicts execute_tool is called with.
CacheSlugs == {"LINEAR_LIST_LINEAR_TEAMS", "linear_list_linear_teams", "SLACK_SEND_MESSAGE"}
CacheArgs == {<<<<"channel", "C1">>, <<"text", "ping">>>>, <<<<"text", "ping">>, <<"channel", "C1">>>>, <<<<"channel", "C2">>, <<"text", "ping">>>>}

\* _cache_key: (tool_name.upper(), json.dumps(args, sort_keys=True))
cache_key(tool_name, args) == <<normalize_tool_slug(tool_name), canonical_json(args)>>

CacheKeys == {cache_key(slug, args) : slug \in CacheSlugs, args \in CacheArgs}

\* The users whose turns call the one ComposioService of the process (main.py:14).
UserIds == {"user_a", "user_b"}

\* What the executor does: it returns an object with a data attribute, a dict with
\* data, a dict without data (or with empty data), or it raises.
ExecutorOutcomes == {"object", "dict_with_data", "dict_no_data", "raise"}

\* A result; id tells the executor invocation that produced it.
Result(shape, id) == [shape |-> shape, id |-> id]
NoResult == Result("none", 0)
NoEntry == [value |-> NoResult, ts |-> 0 - cache_ttl_seconds]

\* ComposioService.__init__: the cache is empty.
NewComposioService == [cache |-> [k \in CacheKeys |-> NoEntry], now |-> 0, ticks |-> 0, executor_calls |-> 0, executor_users |-> <<>>, log |-> <<>>]

\* _get_cached: the entry's value while time.time() - ts < TTL, else None.
get_cached(cache, now, tool_name, args) ==
    LET entry == cache[cache_key(tool_name, args)] IN
    IF entry # NoEntry /\ now - entry.ts < cache_ttl_seconds THEN entry.value ELSE NoResult

\* _set_cached
set_cached(cache, now, tool_name, args, value) == [cache EXCEPT ![cache_key(tool_name, args)] = [value |-> value, ts |-> now]]

\* Fault variant of looks_successful: every returned result is cached.
looks_successful_always(result) == TRUE

\* hasattr(result, 'data') or (isinstance(result, dict) and result.get('data'))
looks_successful(result) == result.shape \in {"object", "dict_with_data"}

\* One execute_tool call, as composio.log records it.
ToolCallRecord(slug, args, user_id, at, result, raised, executed) == [slug |-> slug, args |-> args, user_id |-> user_id, at |-> at, result |-> result, raised |-> raised, executed |-> executed]

\* execute_tool(slug, arguments, user_id) when the executor, if invoked, does outcome;
\* executor_users lists the user_id each executor invocation ran under
\* (_execute_with_auth_retry(slug, arguments, user_id), lines 733-737).
execute_tool(c, slug0, args, user_id, outcome) ==
    LET slug == normalize_tool_slug(slug0)
        cacheable == slug \in READ_ONLY_CACHEABLE_TOOLS
        cached == IF cacheable THEN get_cached(c.cache, c.now, slug, args) ELSE NoResult
        result == Result(outcome, c.executor_calls + 1)
    IN
    IF cached # NoResult
    THEN [c EXCEPT !.log = Append(@, ToolCallRecord(slug0, args, user_id, c.now, cached, FALSE, FALSE))]
    ELSE IF outcome = "raise"
    THEN [c EXCEPT !.executor_calls = @ + 1, !.executor_users = Append(@, user_id), !.log = Append(@, ToolCallRecord(slug0, args, user_id, c.now, NoResult, TRUE, TRUE))]
    ELSE [c EXCEPT !.executor_calls = @ + 1, !.executor_users = Append(@, user_id),
                   !.log = Append(@, ToolCallRecord(slug0, args, user_id, c.now, result, FALSE, TRUE)),
                   !.cache = IF cacheable /\ looks_successful(result) THEN set_cached(c.cache, c.now, slug, args, result) ELSE @]

\* _send_message_with_retry is not being run on its own.
NoRetry == [outcomes |-> <<>>, returned |-> FALSE, result |-> [ok |-> FALSE, error |-> None, calls |-> 0]]

\* No second turn runs on the dispatcher.
NoTurn == [InitialFrame(None, NoConfirmedTool, {}) EXCEPT !.pc = "absent"]

Init == InitWith(UserInputs, {ConfirmedTool(linWrite), ConfirmedTool(slackWriteBad)}, {CoreCalls}) /\ other_turn = NoTurn /\ composio = NewComposioService /\ retry = NoRetry

(***************************************************************************)
(* _send_initial_message (thought fragments are not modelled).             *)
(***************************************************************************)
SendInitialMessage ==
    /\ pc = "send_initial"
    /\ \E rt \in RoundTrips :
        LET r == send_message_with_retry(rt.outcomes) IN
        /\ chat_log' = Append(chat_log, ChatEntry("user_message", None, user_input, None, r, rt))
        /\ EnvAfter(rt, None, None)
        /\ IF r.ok
           THEN /\ response' = Response(rt)
                /\ pc' = "pre_detect"
                /\ events' = events
           ELSE /\ response' = response
                /\ pc' = "returned"
                /\ events' = Append(events, IF is_rate_limit_error(r.error) THEN RateLimitedMessage ELSE ErrorOccurredMessage(r.error))
    /\ UNCHANGED <<user_input, confirmed_tool, read_actions, broker_calls, planning_passes>>
    /\ UNCHANGED <<iteration, action_performed, write_action_executed, pending_read_actions, pending_write_actions, last_searching_app_id, completed_write_apps, app_read_status, app_write_executing, executed_write_keys, apps_with_tool_status, early_summary_sent, tool_nudge_sent, should_nudge_for_tools, required_apps, missing_app_nudge_sent, involved_apps, called_apps, proposal_queue, current_read_action, exit_early>>

(***************************************************************************)
(* _emit_pre_detected_summary(context, enabled = confirmed_tool is None)   *)
(***************************************************************************)
EmitPreDetectedSummary ==
    /\ pc = "pre_detect"
    /\ LET enabled == ~HasConfirmedTool
           pre_detected_apps == detect_apps_from_input(user_input)
       IN
       /\ pc' = IF HasConfirmedTool THEN "confirmed" ELSE "planning"
       /\ required_apps' = IF enabled /\ pre_detected_apps # <<>> THEN pre_detected_apps ELSE required_apps
       /\ IF enabled /\ Len(pre_detected_apps) > 1
          THEN /\ involved_apps' = pre_detected_apps
               /\ events' = Append(events, EarlySummary("combined", pre_detected_apps[1], pre_detected_apps))
               /\ early_summary_sent' = TRUE
          ELSE UNCHANGED <<involved_apps, events, early_summary_sent>>
       /\ should_nudge_for_tools' = IF enabled THEN pre_detected_apps # <<>> /\ looks_like_tool_request(user_input) ELSE should_nudge_for_tools
    /\ UNCHANGED <<user_input, confirmed_tool, read_actions, broker_calls, chat_log, planning_passes, env_vars>>
    /\ UNCHANGED <<iteration, response, action_performed, write_action_executed, pending_read_actions, pending_write_actions, last_searching_app_id, completed_write_apps, app_read_status, app_write_executing, executed_write_keys, apps_with_tool_status, tool_nudge_sent, missing_app_nudge_sent, called_apps, proposal_queue, current_read_action, exit_early>>

BrokerCall(slug, arguments, purpose, outcome) == [slug |-> slug, arguments |-> arguments, purpose |-> purpose, outcome |-> outcome]

(***************************************************************************)
(* _execute_confirmed_tool                                                 *)
(***************************************************************************)
\* Fault variant of confirmed_error_message: the failed action is reported as performed.
confirmed_error_message_performed(app_display, exec_error) == Message(Content("confirmed_error", 0, app_display, exec_error), app_display \o " action executed")

\* Fault variant of mark_completed: the app is not recorded.
mark_completed_skipped(completed, app_id) == completed

\* context.completed_write_apps.add(app_id), ahead of the execution (line 255).
mark_completed(completed, app_id) == completed \cup {app_id}

\* The message of the except clause: "Error executing <App> action: <error>".
confirmed_error_message(app_display, exec_error) == Message(Content("confirmed_error", 0, app_display, exec_error), None)

\* Fault variant of write_executing_after: the app is not discarded.
write_executing_after_no_discard(executing, app_id) == executing \cup {app_id}

\* app_write_executing when _execute_confirmed_tool returns: the app is added before
\* the execution (line 256) and discarded after it, on the success path (line 282)
\* and in the except clause (line 313).
write_executing_after(executing, app_id) == (executing \cup {app_id}) \ {app_id}

ExecuteConfirmedTool ==
    /\ pc = "confirmed"
    /\ \E b \in BrokerOutcomes(confirmed_tool.tool), rt \in RoundTrips :
        LET tool_name == confirmed_tool.tool
            tool_args == confirmed_tool.args
            tool_call_id == confirmed_tool.tool_call_id
            app_id == confirmed_tool.app_id
            app_display == format_app_name(app_id)
            involved == Append(involved_apps, app_id)
            summary == EarlySummary("confirmed", app_id, involved)
            r == send_message_with_retry(rt.outcomes)
        IN
        /\ b = "raise" => rt = NoTrip
        /\ involved_apps' = involved
        /\ executed_write_keys' = executed_write_keys \cup {executed_key(tool_name, tool_args)}
        /\ completed_write_apps' = mark_completed(completed_write_apps, app_id)
        /\ app_write_executing' = write_executing_after(app_write_executing, app_id)
        /\ early_summary_sent' = TRUE
        /\ broker_calls' = Append(broker_calls, BrokerCall(tool_name, tool_args, "confirmed", b))
        /\ EnvAfter(rt, tool_name, b)
        /\ IF b = "raise"
           THEN /\ app_read_status' = [app_read_status EXCEPT ![app_id] = "error"]
                /\ events' = events \o <<summary, confirmed_error_message(app_display, "broker_error")>>
                /\ pc' = "returned"
                /\ UNCHANGED <<write_action_executed, action_performed, response, chat_log>>
           ELSE /\ write_action_executed' = TRUE
                /\ action_performed' = app_display \o " action executed"
                /\ app_read_status' = [app_read_status EXCEPT ![app_id] = "done"]
                /\ chat_log' = Append(chat_log, ChatEntry("tool_result", tool_name, "result", tool_call_id, r, rt))
                /\ IF r.ok
                   THEN /\ response' = Response(rt)
                        /\ events' = Append(events, summary)
                        /\ pc' = "planning"
                   ELSE /\ response' = response
                        /\ events' = events \o <<summary, Message(Content(IF is_rate_limit_error(r.error) THEN "completed_rate_limited" ELSE "completed_model_error", 0, app_display, None), app_display \o " action executed")>>
                        /\ pc' = "returned"
    /\ UNCHANGED <<user_input, confirmed_tool, read_actions, planning_passes>>
    /\ UNCHANGED <<iteration, pending_read_actions, pending_write_actions, last_searching_app_id, apps_with_tool_status, tool_nudge_sent, should_nudge_for_tools, required_apps, missing_app_nudge_sent, called_apps, proposal_queue, current_read_action, exit_early>>

(***************************************************************************)
(* _collect_actions_from_response                                          *)
(***************************************************************************)
\* Fault variant of is_write: only the slack service is consulted.
is_write_slack_only(tool_name, args) == slack_is_write_action(tool_name, args)

\* is_write: the OR of the six services' is_write_action (lines 478-491).
is_write(tool_name, args) ==
    \/ linear_is_write_action(tool_name, args)
    \/ slack_is_write_action(tool_name, args)
    \/ notion_is_write_action(tool_name, args)
    \/ github_is_write_action(tool_name, args)
    \/ gmail_is_write_action(tool_name, args)
    \/ calendar_is_write_action(tool_name, args)

\* Fault variant of slack_gated: an app that is involved (pre-detected from the user
\* input) counts as called.
slack_gated_by_involved(app_id, called, read_status, write_executing) ==
    /\ app_id = "slack"
    /\ "linear" \in (called \cup Range(involved_apps))
    /\ \/ read_status["linear"] \notin {"done", "error"}
       \/ "linear" \in write_executing

\* The gate on a slack call (lines 501-511 for writes, 530-540 for reads): linear was
\* called this turn and its read status is not done/error, or linear is mid-write.
slack_gated(app_id, called, read_status, write_executing) ==
    /\ app_id = "slack"
    /\ "linear" \in called
    /\ \/ read_status["linear"] \notin {"done", "error"}
       \/ "linear" \in write_executing

\* Fault variant of is_duplicate_write: executed_write_keys is never consulted.
is_duplicate_write_never(key, keys) == FALSE

\* Whether a write is skipped as a duplicate (lines 495-497).
is_duplicate_write(key, keys) == key \in keys

\* Fault variant of is_completed_app: completed_write_apps is never consulted.
is_completed_app_never(app_id, completed) == FALSE

\* Whether a write is skipped because its app completed a confirmed write (lines 498-500).
is_completed_app(app_id, completed) == app_id \in completed

ReadAction(tc, app_id) == [tool_name |-> tc.name, args |-> tc.args, tool_call_id |-> tc.call_id, app_id |-> app_id]

WriteAction(tc, app_id) == [tool_name |-> tc.name, args |-> tc.args, tool_call_id |-> tc.call_id, app_id |-> app_id, is_linear_write |-> linear_is_write_action(tc.name, tc.args), is_slack_write |-> slack_is_write_action(tc.name, tc.args), is_notion_write |-> notion_is_write_action(tc.name, tc.args), is_github_write |-> github_is_write_action(tc.name, tc.args), is_gmail_write |-> gmail_is_write_action(tc.name, tc.args), is_calendar_write |-> calendar_is_write_action(tc.name, tc.args)]

\* Fault variant of add_involved: the app is appended whether or not it is listed.
add_involved_always(involved, app_id) == Append(involved, app_id)

\* involved_apps after a tool call of app_id: appended when absent (lines 461-464).
add_involved(involved, app_id) == IF app_id \notin Range(involved) THEN Append(involved, app_id) ELSE involved

\* The body of the loop over response.tool_calls, for one tool call; acc carries the
\* context fields the loop updates and the two lists it builds.
collect_one(acc, tc) ==
    LET app_id == map_tool_to_app(tc.name)
        involved == add_involved(acc.involved_apps, app_id)
        called == acc.called_apps \cup {app_id}
        emitted == IF ~acc.early_summary_sent THEN Append(acc.emitted, EarlySummary("summary", app_id, involved)) ELSE acc.emitted
        key == executed_key(tc.name, tc.args)
        seen == [acc EXCEPT !.involved_apps = involved, !.called_apps = called, !.emitted = emitted, !.early_summary_sent = TRUE]
    IN
    IF is_write(tc.name, tc.args)
    THEN IF is_duplicate_write(key, acc.executed_write_keys) THEN seen
         ELSE IF is_completed_app(app_id, acc.completed_write_apps) THEN seen
         ELSE IF slack_gated(app_id, called, acc.app_read_status, acc.app_write_executing) THEN seen
         ELSE [seen EXCEPT !.write_actions_found = Append(@, WriteAction(tc, app_id)), !.executed_write_keys = @ \cup {key}]
    ELSE IF slack_gated(app_id, called, acc.app_read_status, acc.app_write_executing) THEN seen
         ELSE [seen EXCEPT !.read_actions_to_execute = Append(@, ReadAction(tc, app_id))]

RECURSIVE collect_loop(_, _)
collect_loop(acc, tool_calls) ==
    IF tool_calls = <<>> THEN acc
    ELSE collect_loop(collect_one(acc, Head(tool_calls)), Tail(tool_calls))

\* The fields of the live DispatcherContext that the collection reads.
Context == [involved_apps |-> involved_apps, called_apps |-> called_apps, early_summary_sent |-> early_summary_sent, executed_write_keys |-> executed_write_keys, completed_write_apps |-> completed_write_apps, app_read_status |-> app_read_status, app_write_executing |-> app_write_executing, pending_read_actions |-> pending_read_actions]

collect_actions_from_response(context, resp) ==
    collect_loop([involved_apps |-> context.involved_apps, called_apps |-> context.called_apps, early_summary_sent |-> context.early_summary_sent, executed_write_keys |-> context.executed_write_keys, completed_write_apps |-> context.completed_write_apps, app_read_status |-> context.app_read_status, app_write_executing |-> context.app_write_executing, emitted |-> <<>>, read_actions_to_execute |-> context.pending_read_actions, write_actions_found |-> <<>>, found_function_call |-> resp.tool_calls # <<>>], resp.tool_calls)

(***************************************************************************)
(* _queue_pending_write_actions and _emit_proposal_queue                   *)
(***************************************************************************)
\* The service whose enrich_proposal is applied to a pending write (lines 341-353).
enriching_service(w) ==
    IF w.is_linear_write THEN "linear"
    ELSE IF w.is_slack_write THEN "slack"
    ELSE IF w.is_notion_write THEN "notion"
    ELSE IF w.is_github_write THEN "github"
    ELSE IF w.is_gmail_write THEN "gmail"
    ELSE IF w.is_calendar_write THEN "google_calendar"
    ELSE None

\* enrich_proposal(user_id, args, tool_name): the args, marked with the service that enriched them.
enrich_proposal(service, args) == [args |-> args, enriched_by |-> service]

queued_proposal(w) == [tool |-> w.tool_name, args |-> enrich_proposal(enriching_service(w), w.args), app_id |-> w.app_id, tool_call_id |-> w.tool_call_id, summary_text |-> w.app_id]

\* The proposal queue after _queue_pending_write_actions.
queue_pending_write_actions(pending, queue) == queue \o [i \in 1..Len(pending) |-> queued_proposal(pending[i])]

\* proposal_app_ids: the apps of the queue, first occurrence order (lines 374-378).
RECURSIVE proposal_app_ids(_)
proposal_app_ids(queue) ==
    IF queue = <<>> THEN <<>>
    ELSE LET front == proposal_app_ids(SubSeq(queue, 1, Len(queue) - 1))
             app_id == queue[Len(queue)].app_id
         IN IF app_id \in Range(front) THEN front ELSE Append(front, app_id)

\* The synthetic searching/done pairs ahead of a multi-app proposal (lines 380-399).
RECURSIVE precheck_events(_, _, _)
precheck_events(app_ids, with_status, involved) ==
    IF app_ids = <<>> THEN [events |-> <<>>, apps_with_tool_status |-> with_status]
    ELSE LET app_id == Head(app_ids) IN
         IF app_id \in with_status THEN precheck_events(Tail(app_ids), with_status, involved)
         ELSE LET rest == precheck_events(Tail(app_ids), with_status \cup {app_id}, involved)
                  tool == tool_status_name_for_app(app_id)
              IN [events |-> <<ToolStatus(tool, "searching", app_id, involved), ToolStatus(tool, "done", app_id, involved)>> \o rest.events, apps_with_tool_status |-> rest.apps_with_tool_status]

\* Fault variant of MultiAppStatus: the active app is the first involved app.
MultiAppStatus_first_involved(involved, active_app) == [type |-> "multi_app_status", apps |-> [i \in 1..Len(involved) |-> [app_id |-> involved[i], state |-> "waiting"]], active_app |-> involved[1]]

\* The multi_app_status event of _emit_proposal_queue (lines 401-405).
MultiAppStatus(involved, active_app) == [type |-> "multi_app_status", apps |-> [i \in 1..Len(involved) |-> [app_id |-> involved[i], state |-> "waiting"]], active_app |-> active_app]

RemainingProposal(p) == [tool |-> p.tool, app_id |-> p.app_id, args |-> p.args, tool_call_id |-> p.tool_call_id]

\* total_proposals of the proposal event (line 371).
total_proposals(queue) == Len(queue)

\* Fault variant of remaining_proposals: the queue is not sliced after its head.
remaining_proposals_whole(queue) == [i \in 1..Len(queue) |-> RemainingProposal(queue[i])]

\* remaining_proposals of the proposal event (lines 417-425).
remaining_proposals(queue) == [i \in 1..(Len(queue) - 1) |-> RemainingProposal(queue[i + 1])]

ProposalEvent(queue) == [type |-> "proposal", tool |-> queue[1].tool, content |-> queue[1].args, summary_text |-> queue[1].summary_text, app_id |-> queue[1].app_id, tool_call_id |-> queue[1].tool_call_id, proposal_index |-> 0, total_proposals |-> total_proposals(queue), remaining_proposals |-> remaining_proposals(queue)]

\* Fault variant of emit_proposal_queue: the multi_app_status event is yielded
\* after the proposal event.
emit_proposal_queue_status_last(queue, with_status, involved) ==
    IF queue = <<>> THEN [events |-> <<>>, apps_with_tool_status |-> with_status]
    ELSE LET app_ids == proposal_app_ids(queue)
             pre == IF Len(app_ids) > 1 THEN precheck_events(app_ids, with_status, involved) ELSE [events |-> <<>>, apps_with_tool_status |-> with_status]
         IN [events |-> pre.events \o <<ProposalEvent(queue), MultiAppStatus(involved, queue[1].app_id)>>, apps_with_tool_status |-> pre.apps_with_tool_status]

\* The events _emit_proposal_queue yields and the apps_with_tool_status it leaves.
emit_proposal_queue(queue, with_status, involved) ==
    IF queue = <<>> THEN [events |-> <<>>, apps_with_tool_status |-> with_status]
    ELSE LET app_ids == proposal_app_ids(queue)
             pre == IF Len(app_ids) > 1 THEN precheck_events(app_ids, with_status, involved) ELSE [events |-> <<>>, apps_with_tool_status |-> with_status]
         IN [events |-> pre.events \o <<MultiAppStatus(involved, queue[1].app_id), ProposalEvent(queue)>>, apps_with_tool_status |-> pre.apps_with_tool_status]

(***************************************************************************)
(* _handle_planning                                                        *)
(***************************************************************************)
\* Fault variant of iteration_exhausted: the comparison is off by one.
iteration_exhausted_late(n) == n > max_iterations

\* The iteration budget check at the head of _handle_planning (line 550).
iteration_exhausted(n) == n >= max_iterations

\* _missing_required_apps
missing_required_apps(required, called) == SelectSeq(required, LAMBDA app : app \notin called)

\* Fault variant of NudgeOutcome: the nudge round-trip does not count as an iteration.
NudgeOutcome_uncounted(kind, rt, r, emitted) ==
    /\ chat_log' = Append(chat_log, ChatEntry(kind, None, kind, None, r, rt))
    /\ iteration' = iteration
    /\ IF r.ok
       THEN /\ response' = Response(rt)
            /\ events' = events \o emitted
            /\ pc' = "planning"
            /\ exit_early' = exit_early
       ELSE /\ response' = response
            /\ IF is_rate_limit_error(r.error)
               THEN /\ events' = (events \o emitted) \o <<RateLimitedMessage>>
                    /\ exit_early' = TRUE
               ELSE /\ events' = (events \o emitted) \o <<ErrorOccurredMessage(r.error)>>
                    /\ exit_early' = exit_early
            /\ pc' = "returned"

\* After a nudge round-trip (lines 578-598 and 615-635): the new response and one more
\* iteration, or the rate-limit message with exit_early, or the error raised to run().
NudgeOutcome(kind, rt, r, emitted) ==
    /\ chat_log' = Append(chat_log, ChatEntry(kind, None, kind, None, r, rt))
    /\ IF r.ok
       THEN /\ response' = Response(rt)
            /\ iteration' = iteration + 1
            /\ events' = events \o emitted
            /\ pc' = "planning"
            /\ exit_early' = exit_early
       ELSE /\ response' = response
            /\ iteration' = iteration
            /\ IF is_rate_limit_error(r.error)
               THEN /\ events' = (events \o emitted) \o <<RateLimitedMessage>>
                    /\ exit_early' = TRUE
               ELSE /\ events' = (events \o emitted) \o <<ErrorOccurredMessage(r.error)>>
                    /\ exit_early' = exit_early
            /\ pc' = "returned"

HandlePlanning ==
    /\ pc = "planning"
    /\ IF iteration_exhausted(iteration)
       THEN /\ pc' = "finished"
            /\ UNCHANGED <<ctx_vars, events, chat_log, planning_passes, env_vars>>
       ELSE \E rt \in RoundTrips :
            LET acc == collect_actions_from_response(Context, response)
                reads == acc.read_actions_to_execute
                pending_writes == pending_write_actions \o acc.write_actions_found
                missing_apps == missing_required_apps(required_apps, acc.called_apps)
                nudge_missing == should_nudge_for_tools /\ missing_apps # <<>> /\ ~missing_app_nudge_sent
                nudge_tools == should_nudge_for_tools /\ ~tool_nudge_sent
                branch == IF reads # <<>> THEN "read"
                          ELSE IF pending_writes # <<>> THEN (IF nudge_missing THEN "missing_app_nudge" ELSE "confirm")
                          ELSE IF ~acc.found_function_call THEN (IF nudge_tools THEN "tool_nudge" ELSE "no_call")
                          ELSE "finish"
                sends == branch \in {"missing_app_nudge", "tool_nudge"}
                r == send_message_with_retry(rt.outcomes)
            IN
            /\ ~sends => rt = NoTrip
            /\ EnvAfter(rt, None, None)
            /\ planning_passes' = planning_passes + 1
            /\ involved_apps' = acc.involved_apps
            /\ called_apps' = acc.called_apps
            /\ early_summary_sent' = acc.early_summary_sent
            /\ executed_write_keys' = acc.executed_write_keys
            /\ current_read_action' = IF branch = "read" THEN <<Head(reads)>> ELSE current_read_action
            /\ pending_read_actions' = IF branch = "read" THEN Tail(reads) ELSE <<>>
            /\ pending_write_actions' = IF branch = "confirm" THEN <<>> ELSE pending_writes
            /\ proposal_queue' = IF branch = "confirm" THEN queue_pending_write_actions(pending_writes, proposal_queue) ELSE proposal_queue
            /\ missing_app_nudge_sent' = (missing_app_nudge_sent \/ branch = "missing_app_nudge")
            /\ tool_nudge_sent' = (tool_nudge_sent \/ branch = "tool_nudge")
            /\ apps_with_tool_status' = IF branch = "no_call" /\ last_searching_app_id # None THEN apps_with_tool_status \cup {last_searching_app_id} ELSE apps_with_tool_status
            /\ IF sends
               THEN NudgeOutcome(branch, rt, r, acc.emitted)
               ELSE /\ events' = (events \o acc.emitted) \o (IF branch = "no_call" /\ last_searching_app_id # None THEN <<ToolStatus("noop", "done", last_searching_app_id, acc.involved_apps)>> ELSE <<>>)
                    /\ pc' = CASE branch = "read" -> "executing_read"
                               [] branch = "confirm" -> "awaiting_confirmation"
                               [] OTHER -> "finished"
                    /\ UNCHANGED <<response, iteration, exit_early, chat_log>>
            /\ UNCHANGED <<action_performed, write_action_executed, last_searching_app_id, completed_write_apps, app_read_status, app_write_executing, should_nudge_for_tools, required_apps>>
    /\ UNCHANGED <<user_input, confirmed_tool, read_actions, broker_calls>>

(***************************************************************************)
(* _handle_read: one turn of its loop over the batch per step.  On entry   *)
(* (read_actions empty) the batch is current_read_action followed by       *)
(* pending_read_actions; after the last read the handler returns PLANNING. *)
(***************************************************************************)
\* status_after_read (lines 696-709): the successful attribute of the result,
\* True when the result has none, as a dict has none; a raise is an error.
status_after_read(b) == IF b \in {"ok", "unsuccessful_dict"} THEN "done" ELSE "error"

\* response_payload sent back to the model: {"error": ...} when the broker raised
\* (line 708), else {"result": ...} built from the result data (line 703).
response_payload(b) == IF b = "raise" THEN "error" ELSE "result"

\* Fault variant of read_status_events: the closing event is not emitted.
read_status_events_unclosed(read, status, involved) == <<ToolStatus(read.tool_name, "searching", read.app_id, involved)>>

\* Fault variant of read_status_events: the closing event comes first.
read_status_events_swapped(read, status, involved) == <<ToolStatus(read.tool_name, status, read.app_id, involved), ToolStatus(read.tool_name, "searching", read.app_id, involved)>>

\* The two tool_status events around one read (lines 677-683 and 713-719).
read_status_events(read, status, involved) == <<ToolStatus(read.tool_name, "searching", read.app_id, involved), ToolStatus(read.tool_name, status, read.app_id, involved)>>

\* Fault variant of read_reply: the response to every read of a batch is kept.
read_reply_every_read(rest, rt) == rt

\* The response to a read's result that the loop of _handle_read keeps: the one to
\* the last read of the batch (line 753); an earlier one is overwritten by the next
\* iteration of the loop (line 721), rest being the reads still to run.
read_reply(rest, rt) == IF rest = <<>> THEN rt ELSE NoTrip

HandleRead ==
    /\ pc = "executing_read"
    /\ \E rt \in RoundTrips :
        LET batch == IF read_actions # <<>> THEN read_actions ELSE current_read_action \o pending_read_actions
            read == Head(batch)
            rest == Tail(batch)
        IN
        \E b \in BrokerOutcomes(read.tool_name) :
        LET status == status_after_read(b)
            r == send_message_with_retry(rt.outcomes)
            queue == IF pending_write_actions # <<>> THEN queue_pending_write_actions(pending_write_actions, proposal_queue) ELSE proposal_queue
            flushed == emit_proposal_queue(queue, apps_with_tool_status \cup {read.app_id}, involved_apps)
            statuses == read_status_events(read, status, involved_apps)
        IN
        /\ EnvAfter(rt, read.tool_name, b)
        /\ current_read_action' = <<>>
        /\ pending_read_actions' = <<>>
        /\ last_searching_app_id' = read.app_id
        /\ broker_calls' = Append(broker_calls, BrokerCall(read.tool_name, read.args, "read", b))
        /\ app_read_status' = [app_read_status EXCEPT ![read.app_id] = status]
        /\ chat_log' = Append(chat_log, ChatEntry("tool_result", read.tool_name, response_payload(b), read.tool_call_id, r, read_reply(rest, rt)))
        /\ IF ~r.ok
           THEN /\ pending_write_actions' = <<>>
                /\ proposal_queue' = queue
                /\ apps_with_tool_status' = flushed.apps_with_tool_status
                /\ events' = (events \o statuses) \o (IF queue # <<>> THEN flushed.events ELSE <<Message(Content(IF is_rate_limit_error(r.error) THEN "fetched_rate_limited" ELSE "fetched_model_error", 0, None, None), None)>>)
                /\ exit_early' = TRUE
                /\ pc' = "returned"
                /\ read_actions' = <<>>
                /\ UNCHANGED <<response, iteration>>
           ELSE /\ apps_with_tool_status' = apps_with_tool_status \cup {read.app_id}
                /\ events' = events \o statuses
                /\ UNCHANGED <<pending_write_actions, proposal_queue, exit_early>>
                /\ read_actions' = rest
                /\ IF rest = <<>>
                   THEN /\ response' = Response(rt)
                        /\ iteration' = iteration + 1
                        /\ pc' = "planning"
                   ELSE UNCHANGED <<response, iteration, pc>>
    /\ UNCHANGED <<user_input, confirmed_tool, planning_passes>>
    /\ UNCHANGED <<action_performed, write_action_executed, completed_write_apps, app_write_executing, executed_write_keys, early_summary_sent, tool_nudge_sent, should_nudge_for_tools, required_apps, missing_app_nudge_sent, involved_apps, called_apps>>

(***************************************************************************)
(* run(): the AWAITING_CONFIRMATION branch of the loop, and the code after *)
(* the loop.                                                               *)
(***************************************************************************)
AwaitConfirmation ==
    /\ pc = "awaiting_confirmation"
    /\ LET out == emit_proposal_queue(proposal_queue, apps_with_tool_status, involved_apps) IN
       /\ events' = events \o out.events
       /\ apps_with_tool_status' = out.apps_with_tool_status
    /\ pc' = "returned"
    /\ UNCHANGED <<user_input, confirmed_tool, read_actions, broker_calls, chat_log, planning_passes, env_vars>>
    /\ UNCHANGED <<iteration, response, action_performed, write_action_executed, pending_read_actions, pending_write_actions, last_searching_app_id, completed_write_apps, app_read_status, app_write_executing, executed_write_keys, early_summary_sent, tool_nudge_sent, should_nudge_for_tools, required_apps, missing_app_nudge_sent, involved_apps, called_apps, proposal_queue, current_read_action, exit_early>>

\* Fault variant of final_text: the response text is lost.
final_text_blank(resp) == 0

\* final_text = context.response.text or ""
final_text(resp) == resp.text

Finalize ==
    /\ pc = "finished"
    /\ pc' = "returned"
    /\ IF exit_early
       THEN UNCHANGED <<action_performed, events>>
       ELSE /\ action_performed' = IF write_action_executed THEN "Action Executed" ELSE action_performed
            /\ events' = Append(events, Message(Content("final", final_text(response), None, None), action_performed'))
    /\ UNCHANGED <<user_input, confirmed_tool, read_actions, broker_calls, chat_log, planning_passes, env_vars>>
    /\ UNCHANGED <<iteration, response, write_action_executed, pending_read_actions, pending_write_actions, last_searching_app_id, completed_write_apps, app_read_status, app_write_executing, executed_write_keys, apps_with_tool_status, early_summary_sent, tool_nudge_sent, should_nudge_for_tools, required_apps, missing_app_nudge_sent, involved_apps, called_apps, proposal_queue, current_read_action, exit_early>>

Next ==
    \/ SendInitialMessage
    \/ EmitPreDetectedSummary
    \/ ExecuteConfirmedTool
    \/ HandlePlanning
    \/ HandleRead
    \/ AwaitConfirmation
    \/ Finalize

Spec == Init /\ [][Next]_vars

\* run() is a generator its consumer drains: every step that is enabled is taken.
FairSpec == Spec /\ WF_vars(Next)

\* A turn in which the model also calls the tools of an app without capability service.
OtherAppInit == InitWith(UserInputs, {ConfirmedTool(linWrite)}, {OtherAppCalls}) /\ other_turn = NoTurn /\ composio = NewComposioService /\ retry = NoRetry

OtherAppSpec == OtherAppInit /\ [][Next]_vars

\* A turn in which the model emits one write with its arguments in either key order.
SwappedArgsInit == InitWith(UserInputs, {ConfirmedTool(linWrite)}, {SwappedArgsCalls}) /\ other_turn = NoTurn /\ composio = NewComposioService /\ retry = NoRetry

SwappedArgsSpec == SwappedArgsInit /\ [][Next]_vars

\* The tool calls of a model that answers a batch of reads: two reads that are
\* not gated when the chat-app read comes first, and a write.
BatchCalls == {slackRead, linRead, linWrite}

\* Fresh tool calls the model may emit in a turn with a read batch: the two reads
\* of the batch and one call in a later response.
MaxBatchFresh == 3

\* A turn whose model may answer each read of a batch with a new tool call.
BatchInit ==
    /\ \/ user_input = "hello" /\ confirmed_tool = NoConfirmedTool
       \/ user_input = "__CONFIRMED__" /\ confirmed_tool = ConfirmedTool(slackWrite)
    /\ pc = "send_initial"
    /\ InitContext
    /\ read_actions = <<>>
    /\ events = <<>>
    /\ broker_calls = <<>>
    /\ chat_log = <<>>
    /\ planning_passes = 0
    /\ palette = BatchCalls
    /\ fresh_left = MaxBatchFresh
    /\ last_calls = <<>>
    /\ broker_result = [slug \in ToolNames |-> "unset"]
    /\ other_turn = NoTurn
    /\ composio = NewComposioService
    /\ retry = NoRetry

BatchSpec == BatchInit /\ [][Next]_vars

(***************************************************************************)
(* Two turns on one AgentDispatcher.  run() is a generator: everything a   *)
(* turn keeps is in its frame (context, phase, response and the chat it    *)
(* was given), the instance holds only the service references of __init__. *)
(* The consumer that drains two generators resumes one or the other.       *)
(***************************************************************************)
\* The frame of the turn that is running.
Frame == [user_input |-> user_input, confirmed_tool |-> confirmed_tool, pc |-> pc, iteration |-> iteration, response |-> response, action_performed |-> action_performed, write_action_executed |-> write_action_executed, pending_read_actions |-> pending_read_actions, pending_write_actions |-> pending_write_actions, last_searching_app_id |-> last_searching_app_id, completed_write_apps |-> completed_write_apps, app_read_status |-> app_read_status, app_write_executing |-> app_write_executing, executed_write_keys |-> executed_write_keys, apps_with_tool_status |-> apps_with_tool_status, early_summary_sent |-> early_summary_sent, tool_nudge_sent |-> tool_nudge_sent, should_nudge_for_tools |-> should_nudge_for_tools, required_apps |-> required_apps, missing_app_nudge_sent |-> missing_app_nudge_sent, involved_apps |-> involved_apps, called_apps |-> called_apps, proposal_queue |-> proposal_queue, current_read_action |-> current_read_action, exit_early |-> exit_early, read_actions |-> read_actions, events |-> events, broker_calls |-> broker_calls, chat_log |-> chat_log, planning_passes |-> planning_passes, palette |-> palette, fresh_left |-> fresh_left, last_calls |-> last_calls, broker_result |-> broker_result]

\* Fault variant of resumed: the dedup set is kept on the dispatcher instance, so a
\* resumed turn sees the keys of the turn that ran last.
resumed_shared_dedup(frame) == [frame EXCEPT !.executed_write_keys = executed_write_keys]

\* The state a suspended generator resumes with: its own frame.
resumed(frame) == frame

\* The consumer suspends the running turn at a yield and resumes the other one.
Switch ==
    /\ other_turn.pc \notin {"absent", "returned"}
    /\ other_turn' = Frame
    /\ composio' = composio
    /\ retry' = retry
    /\ user_input' = resumed(other_turn).user_input
    /\ confirmed_tool' = resumed(other_turn).confirmed_tool
    /\ pc' = resumed(other_turn).pc
    /\ iteration' = resumed(other_turn).iteration
    /\ response' = resumed(other_turn).response
    /\ action_performed' = resumed(other_turn).action_performed
    /\ write_action_executed' = resumed(other_turn).write_action_executed
    /\ pending_read_actions' = resumed(other_turn).pending_read_actions
    /\ pending_write_actions' = resumed(other_turn).pending_write_actions
    /\ last_searching_app_id' = resumed(other_turn).last_searching_app_id
    /\ completed_write_apps' = resumed(other_turn).completed_write_apps
    /\ app_read_status' = resumed(other_turn).app_read_status
    /\ app_write_executing' = resumed(other_turn).app_write_executing
    /\ executed_write_keys' = resumed(other_turn).executed_write_keys
    /\ apps_with_tool_status' = resumed(other_turn).apps_with_tool_status
    /\ early_summary_sent' = resumed(other_turn).early_summary_sent
    /\ tool_nudge_sent' = resumed(other_turn).tool_nudge_sent
    /\ should_nudge_for_tools' = resumed(other_turn).should_nudge_for_tools
    /\ required_apps' = resumed(other_turn).required_apps
    /\ missing_app_nudge_sent' = resumed(other_turn).missing_app_nudge_sent
    /\ involved_apps' = resumed(other_turn).involved_apps
    /\ called_apps' = resumed(other_turn).called_apps
    /\ proposal_queue' = resumed(other_turn).proposal_queue
    /\ current_read_action' = resumed(other_turn).current_read_action
    /\ exit_early' = resumed(other_turn).exit_early
    /\ read_actions' = resumed(other_turn).read_actions
    /\ events' = resumed(other_turn).events
    /\ broker_calls' = resumed(other_turn).broker_calls
    /\ chat_log' = resumed(other_turn).chat_log
    /\ planning_passes' = resumed(other_turn).planning_passes
    /\ palette' = resumed(other_turn).palette
    /\ fresh_left' = resumed(other_turn).fresh_left
    /\ last_calls' = resumed(other_turn).last_calls
    /\ broker_result' = resumed(other_turn).broker_result

\* A turn for a user message and a turn that carries a confirmed action whose dedup
\* key the first turn's model can emit as well.
TwoTurnInit ==
    /\ InitWith({"hello"}, {}, {{linRead, linWrite}})
    /\ other_turn = InitialFrame("__CONFIRMED__", ConfirmedTool(linWrite), {slackWrite})
    /\ composio = NewComposioService
    /\ retry = NoRetry

TwoTurnNext == Next \/ Switch

TwoTurnSpec == TwoTurnInit /\ [][TwoTurnNext]_vars

(***************************************************************************)
(* The ComposioService on its own: callers execute tools while time passes.*)
(***************************************************************************)
ExecuteTool ==
    /\ Len(composio.log) < MaxToolCalls
    /\ \E slug \in CacheSlugs, args \in CacheArgs, user_id \in UserIds, outcome \in ExecutorOutcomes :
        composio' = execute_tool(composio, slug, args, user_id, outcome)
    /\ UNCHANGED <<user_input, confirmed_tool, pc, ctx_vars, read_actions, events, broker_calls, chat_log, planning_passes, palette, fresh_left, last_calls, broker_result, other_turn, retry>>

Tick ==
    /\ composio.ticks < MaxTicks
    /\ composio' = [composio EXCEPT !.now = @ + TickSeconds, !.ticks = @ + 1]
    /\ UNCHANGED <<user_input, confirmed_tool, pc, ctx_vars, read_actions, events, broker_calls, chat_log, planning_passes, palette, fresh_left, last_calls, broker_result, other_turn, retry>>

CacheInit == InitWith({"hello"}, {}, {{}}) /\ other_turn = NoTurn /\ composio = NewComposioService /\ retry = NoRetry

CacheNext == ExecuteTool \/ Tick

CacheSpec == CacheInit /\ [][CacheNext]_vars

(***************************************************************************)
(* _send_message_with_retry on its own, for every behaviour of send_fn.    *)
(***************************************************************************)
\* What one call of send_fn does: it returns, or raises a rate-limit error or
\* another error.
SendOutcomes == {"ok", "rate_limit", "model_error"}

\* What send_fn does on each of its calls, for one call more than the helper may make.
OutcomeVectors == [1..(max_retries + 2) -> SendOutcomes]

SendMessageWithRetry ==
    /\ ~retry.returned
    /\ retry' = [retry EXCEPT !.returned = TRUE, !.result = send_message_with_retry(retry.outcomes)]
    /\ UNCHANGED <<user_input, confirmed_tool, pc, ctx_vars, read_actions, events, broker_calls, chat_log, planning_passes, palette, fresh_left, last_calls, broker_result, other_turn, composio>>

RetryInit ==
    /\ InitWith({"hello"}, {}, {{}})
    /\ other_turn = NoTurn
    /\ composio = NewComposioService
    /\ retry \in {[NoRetry EXCEPT !.outcomes = o] : o \in OutcomeVectors}

RetryNext == SendMessageWithRetry

RetrySpec == RetryInit /\ [][RetryNext]_vars

(***************************************************************************)
(* Properties of a turn.                                                   *)
(***************************************************************************)
Last(s) == s[Len(s)]

EventsOfType(t) == SelectSeq(events, LAMBDA e : e.type = t)

StatusEvents == EventsOfType("tool_status")

ProposalEvents == EventsOfType("proposal")

\* A tool call some capability service classifies as a write.
WriteClassified(tool_name, args) ==
    \/ linear_is_write_action(tool_name, args)
    \/ slack_is_write_action(tool_name, args)
    \/ notion_is_write_action(tool_name, args)
    \/ github_is_write_action(tool_name, args)
    \/ gmail_is_write_action(tool_name, args)
    \/ calendar_is_write_action(tool_name, args)

\* C1: in a turn started without a confirmed action the broker is never invoked
\* for a write-classified tool call: every broker execution is the execution of a
\* read-classified call by the read executor.
C1_NoWriteReachesBroker ==
    ~HasConfirmedTool => \A i \in 1..Len(broker_calls) :
        /\ broker_calls[i].purpose = "read"
        /\ ~WriteClassified(broker_calls[i].slug, broker_calls[i].arguments)

\* A finished turn without confirmed action in which the broker executed a read and
\* a write the model asked for was proposed.
C1_Witness ==
    /\ ~HasConfirmedTool
    /\ pc = "returned"
    /\ broker_calls # <<>>
    /\ \E i \in 1..Len(events) : events[i].type = "proposal" /\ WriteClassified(events[i].tool, events[i].content.args)

\* The dedup key of a proposal or of a remaining_proposals entry.
ProposalKey(tool, content) == executed_key(tool, content.args)

\* The dedup keys of every proposal and remaining_proposals entry of evs, in order.
RECURSIVE ProposalKeys(_)
ProposalKeys(evs) ==
    IF evs = <<>> THEN <<>>
    ELSE LET e == Head(evs)
             rest == e.remaining_proposals
         IN (<<ProposalKey(e.tool, e.content)>> \o [i \in 1..Len(rest) |-> ProposalKey(rest[i].tool, rest[i].args)]) \o ProposalKeys(Tail(evs))

\* C2: within one turn a write with a given dedup key (tool name, canonical args)
\* appears in at most one proposal event or remaining_proposals entry.
C2_ProposedAtMostOnce ==
    LET keys == ProposalKeys(ProposalEvents) IN
    \A i, j \in 1..Len(keys) : i # j => keys[i] # keys[j]

\* A finished turn in which the model emitted a write twice in one response after
\* the nudge for a missing app, the write being pending since the response before
\* the nudge, and in which that write is the one proposal.
C2_Witness ==
    /\ pc = "returned"
    /\ \E i \in 1..Len(chat_log) : chat_log[i].kind = "missing_app_nudge" /\ chat_log[i].ok
    /\ Len(response.tool_calls) >= 2
    /\ executed_key(response.tool_calls[1].name, response.tool_calls[1].args) = executed_key(response.tool_calls[2].name, response.tool_calls[2].args)
    /\ ProposalKeys(ProposalEvents) = <<executed_key(response.tool_calls[1].name, response.tool_calls[1].args)>>

\* A tool_status event, a proposal or a remaining_proposals entry for slack.
SlackEvent(e) ==
    \/ e.type = "tool_status" /\ e.app_id = "slack"
    \/ e.type = "proposal" /\ (e.app_id = "slack" \/ \E i \in 1..Len(e.remaining_proposals) : e.remaining_proposals[i].app_id = "slack")

\* linear's read status is done or error and linear is not mid-write-execution.
LinearSettled(read_status, write_executing) ==
    /\ read_status["linear"] \in {"done", "error"}
    /\ "linear" \notin write_executing

\* C3: when linear and slack are both involved in the turn, no tool_status event
\* and no proposal or remaining_proposals entry for slack is emitted before
\* linear's read status has reached done or error, nor while linear is
\* mid-write-execution.
C3_SlackWaitsForLinear ==
    [][\A i \in (Len(events) + 1)..Len(events') :
          (SlackEvent(events'[i]) /\ "linear" \in Range(involved_apps')) => LinearSettled(app_read_status', app_write_executing')]_vars

\* C4: whatever the model responds and whatever the broker does, run() returns,
\* and no turn makes more than max_iterations planning passes (passes of
\* _handle_planning that get past its budget check and inspect a response).
C4_TerminatesWithinBudget == <>(pc = "returned") /\ [](planning_passes <= max_iterations)

\* A turn in which the model answered every round-trip with read calls until the
\* budget ended it.
C4_Witness ==
    /\ pc = "returned"
    /\ planning_passes = max_iterations
    /\ Len(broker_calls) >= max_iterations
    /\ \A i \in 1..Len(broker_calls) : broker_calls[i].purpose = "read"

\* The final message run() yields for the response resp.
FinalMessage(resp, performed) == Message(Content("final", resp.text, None, None), performed)

\* C5: the iteration counter never exceeds max_iterations and a turn makes at most
\* max_iterations planning passes; once the counter has reached max_iterations
\* there is no further model round-trip and no further broker call, the turn goes
\* to Finished, and it is finalized with a message carrying the text of the
\* response to the last round-trip.
C5_IterationBudget ==
    /\ [](iteration <= max_iterations /\ planning_passes <= max_iterations)
    /\ [][iteration = max_iterations =>
            /\ chat_log' = chat_log
            /\ broker_calls' = broker_calls
            /\ pc' \in {"finished", "returned"}
            /\ pc' = "returned" =>
                /\ Len(events') = Len(events) + 1
                /\ Last(events') = FinalMessage(response, action_performed')
                /\ response.text = Len(chat_log)]_vars

\* A turn that used its whole iteration budget and was finalized.
C5_Witness ==
    /\ iteration = max_iterations
    /\ pc = "returned"
    /\ Last(events).type = "message"
    /\ Last(events).content.kind = "final"

\* C6: every proposal event has total_proposals = 1 + len(remaining_proposals)
\* and proposal_index 0.
C6_ProposalCounts ==
    \A i \in 1..Len(events) : events[i].type = "proposal" =>
        /\ events[i].total_proposals = 1 + Len(events[i].remaining_proposals)
        /\ events[i].proposal_index = 0

\* A proposal event for a queue of two writes.
C6_Witness ==
    \E i \in 1..Len(events) :
        /\ events[i].type = "proposal"
        /\ events[i].total_proposals = 2
        /\ Len(events[i].remaining_proposals) = 1
        /\ events[i].remaining_proposals[1].tool # events[i].tool

\* Whether T[i] and T[i + 1] are the searching and the done/error event of one action.
IsPairAt(T, i) ==
    /\ i < Len(T)
    /\ T[i].status = "searching"
    /\ T[i + 1].status \in {"done", "error"}
    /\ T[i + 1].tool = T[i].tool
    /\ T[i + 1].app_id = T[i].app_id

\* The searching-then-(done|error) pairs among the tool_status events T, by position.
StatusPairs(T) == {i \in 1..Len(T) : IsPairAt(T, i)}

\* Those of the pairs P that are for app.
PairsOf(T, P, app) == {i \in P : T[i].app_id = app}

\* Those of the pairs P that are for app and carry the synthetic tool name of
\* _emit_proposal_queue.
SyntheticPairs(T, P, app) == {i \in P : T[i].app_id = app /\ T[i].tool = tool_status_name_for_app(app)}

\* The read actions the broker executed for app, by position.
ReadExecutions(app) == {i \in 1..Len(broker_calls) : broker_calls[i].purpose = "read" /\ map_tool_to_app(broker_calls[i].slug) = app}

\* Every searching event is directly followed in the stream by the done/error
\* event of the same tool and app.
PairsNeverInterleave ==
    \A i \in 1..Len(events) : (events[i].type = "tool_status" /\ events[i].status = "searching") =>
        /\ i < Len(events)
        /\ events[i + 1].type = "tool_status"
        /\ events[i + 1].status \in {"done", "error"}
        /\ events[i + 1].tool = events[i].tool
        /\ events[i + 1].app_id = events[i].app_id

\* C7 as stated: for every app the number of searching-then-(done|error) pairs
\* equals the number of read actions the broker executed for the app, and pairs
\* of different apps never interleave.
C7_PairsEqualReads ==
    LET T == StatusEvents
        P == StatusPairs(T)
    IN
    /\ \A app \in AppIds : Cardinality(PairsOf(T, P, app)) = Cardinality(ReadExecutions(app))
    /\ PairsNeverInterleave

\* C7 (amended): for every app the pairs that carry a real tool name are as many
\* as the read actions the broker executed for the app; an app gets at most one
\* synthetic <APP>_PRECHECK pair, only when it had no read this turn and a
\* proposal for a queue of several writes follows; pairs never interleave.
C7_RealPairsEqualReads ==
    LET T == StatusEvents
        P == StatusPairs(T)
    IN
    /\ \A app \in AppIds :
        /\ Cardinality(PairsOf(T, P, app) \ SyntheticPairs(T, P, app)) = Cardinality(ReadExecutions(app))
        /\ Cardinality(SyntheticPairs(T, P, app)) <= 1
        /\ SyntheticPairs(T, P, app) # {} =>
            /\ ReadExecutions(app) = {}
            /\ \E i \in 1..Len(events) : events[i].type = "proposal" /\ events[i].total_proposals >= 2
    /\ PairsNeverInterleave

\* A turn that proposed writes of two apps, with a synthetic pair and no read for linear.
C7_Witness ==
    /\ pc = "returned"
    /\ SyntheticPairs(StatusEvents, StatusPairs(StatusEvents), "linear") # {}
    /\ ReadExecutions("linear") = {}
    /\ ProposalEvents # <<>>

ReadsOnlyTurn ==
    /\ pc = "returned"
    /\ ~HasConfirmedTool
    /\ chat_log # <<>>
    /\ \A i \in 1..Len(chat_log) : chat_log[i].ok /\ (i > 1 => chat_log[i].reply = <<>>)
    /\ chat_log[1].reply # <<>>
    /\ \A k \in 1..Len(chat_log[1].reply) : ~WriteClassified(chat_log[1].reply[k].name, chat_log[1].reply[k].args)
    /\ \A i \in 1..Len(broker_calls) : broker_calls[i].outcome = "ok"

\* C9: when the model's response holds read calls only, every one of them is
\* executed by the broker, in the order of the response, each with its own
\* searching-then-done pair, and the turn ends with a final message and no proposal.
C9_EveryReadExecutedInOrder ==
    ReadsOnlyTurn =>
        LET reads == chat_log[1].reply
            T == SelectSeq(StatusEvents, LAMBDA e : e.tool # "noop")
        IN
        /\ Len(broker_calls) = Len(reads)
        /\ \A k \in 1..Len(broker_calls) : k <= Len(reads) => (broker_calls[k].slug = reads[k].name /\ broker_calls[k].arguments = reads[k].args)
        /\ Len(T) = 2 * Len(reads)
        /\ \A k \in 1..Len(reads) : 2 * k <= Len(T) => (IsPairAt(T, 2 * k - 1) /\ T[2 * k - 1].tool = reads[k].name /\ T[2 * k].status = "done")
        /\ Last(events).type = "message"
        /\ ProposalEvents = <<>>

\* A finished turn whose only response held two write calls of two different apps.
TwoAppWritesTurn ==
    /\ pc = "returned"
    /\ ~HasConfirmedTool
    /\ Len(chat_log) = 1
    /\ chat_log[1].ok
    /\ Len(chat_log[1].reply) = 2
    /\ \A k \in 1..2 : WriteClassified(chat_log[1].reply[k].name, chat_log[1].reply[k].args)
    /\ map_tool_to_app(chat_log[1].reply[1].name) # map_tool_to_app(chat_log[1].reply[2].name)

\* C10: when the model's response holds write calls of two different apps and no
\* read, the turn emits exactly one multi_app_status listing both apps and exactly
\* one proposal with total_proposals = 2, whose proposal is the first write and
\* whose remaining_proposals holds the second, and the broker is never called.
C10_BothWritesProposed ==
    TwoAppWritesTurn =>
        LET writes == chat_log[1].reply
            statuses == EventsOfType("multi_app_status")
        IN
        /\ Len(statuses) = 1
        /\ \A s \in Range(statuses) : {a.app_id : a \in Range(s.apps)} = {map_tool_to_app(writes[1].name), map_tool_to_app(writes[2].name)}
        /\ Len(ProposalEvents) = 1
        /\ \A p \in Range(ProposalEvents) :
            /\ p.total_proposals = 2
            /\ p.tool = writes[1].name
            /\ Len(p.remaining_proposals) = 1
            /\ \A r \in Range(p.remaining_proposals) : r.tool = writes[2].name
        /\ broker_calls = <<>>

(***************************************************************************)
(* Properties of a turn that carries a confirmed action.                   *)
(***************************************************************************)
MessageEvents == EventsOfType("message")

\* The broker call _execute_confirmed_tool made, once it has made it.
ConfirmedExecuted == HasConfirmedTool /\ broker_calls # <<>> /\ broker_calls[1].purpose = "confirmed"

\* The confirmed action was executed and the broker returned a successful result.
ConfirmedSucceeded == ConfirmedExecuted /\ broker_calls[1].outcome = "ok"

\* C11: when the execution of a confirmed action succeeds, the finished turn's
\* stream holds exactly one message event, whose action_performed is not null, and
\* the broker was called exactly once, with the confirmed tool name and arguments.
C11_SuccessOneMessageOneBrokerCall ==
    (pc = "returned" /\ ConfirmedSucceeded) =>
        /\ Len(MessageEvents) = 1
        /\ \A m \in Range(MessageEvents) : m.action_performed # None
        /\ broker_calls = <<BrokerCall(confirmed_tool.tool, confirmed_tool.args, "confirmed", "ok")>>

\* The confirmed action was executed and the broker raised.
ConfirmedRaised == ConfirmedExecuted /\ broker_calls[1].outcome = "raise"

\* C12: when the execution of a confirmed action raises, the app's read status is
\* error and the turn is over with exactly one message event, whose action_performed
\* is null and whose content names the app and the error; the only model round-trip
\* is the initial user message, no Planning pass ran and the broker was not called again.
C12_RaiseEndsTurn ==
    ConfirmedRaised =>
        /\ pc = "returned"
        /\ app_read_status[confirmed_tool.app_id] = "error"
        /\ Len(MessageEvents) = 1
        /\ \A m \in Range(MessageEvents) :
            /\ m.action_performed = None
            /\ m.content.kind = "confirmed_error"
            /\ m.content.app = format_app_name(confirmed_tool.app_id)
            /\ m.content.error = "broker_error"
        /\ Last(events).type = "message"
        /\ Len(broker_calls) = 1
        /\ planning_passes = 0
        /\ Len(chat_log) = 1
        /\ chat_log[1].kind = "user_message"
        /\ ProposalEvents = <<>>

C12_Witness ==
    /\ ConfirmedRaised
    /\ confirmed_tool.app_id = "slack"
    /\ Len(events) = 2

\* The tool calls of the model's response to the initial user message.
InitialReply == IF chat_log # <<>> /\ chat_log[1].kind = "user_message" THEN chat_log[1].reply ELSE <<>>

\* C13: when the execution of a confirmed action raises, every write for another
\* app that the model returned in the response it had given before the execution
\* is surfaced in a proposal event of the turn.
C13_OtherAppWritesSurfaced ==
    (pc = "returned" /\ ConfirmedRaised) =>
        \A k \in 1..Len(InitialReply) :
            LET tc == InitialReply[k] IN
            (WriteClassified(tc.name, tc.args) /\ map_tool_to_app(tc.name) # confirmed_tool.app_id)
                => executed_key(tc.name, tc.args) \in Range(ProposalKeys(ProposalEvents))

\* The confirmed action was executed and the broker's result has successful = False.
ConfirmedUnsuccessful == ConfirmedExecuted /\ broker_calls[1].outcome \in {"unsuccessful", "unsuccessful_dict"}

\* The tool calls of the model's reply to the result of the confirmed action.
FollowUpReply == IF Len(chat_log) >= 2 /\ chat_log[2].kind = "tool_result" /\ chat_log[2].ok THEN chat_log[2].reply ELSE <<>>

KeyOf(tc) == executed_key(tc.name, tc.args)

\* A finished turn whose confirmed action was reported unsuccessful and in which the
\* model's reply to that result was its last response and held writes only: writes
\* with pairwise different keys, none of them the confirmed action itself, and one
\* of them for the confirmed action's own app.
FailedConfirmedThenWrites ==
    /\ pc = "returned"
    /\ ConfirmedUnsuccessful
    /\ Len(chat_log) = 2
    /\ FollowUpReply # <<>>
    /\ \A k \in 1..Len(FollowUpReply) :
        /\ WriteClassified(FollowUpReply[k].name, FollowUpReply[k].args)
        /\ KeyOf(FollowUpReply[k]) # executed_key(confirmed_tool.tool, confirmed_tool.args)
        /\ \A j \in 1..Len(FollowUpReply) : j # k => KeyOf(FollowUpReply[j]) # KeyOf(FollowUpReply[k])
    /\ \E k \in 1..Len(FollowUpReply) : map_tool_to_app(FollowUpReply[k].name) = confirmed_tool.app_id

\* C14: when the broker result of a confirmed action reports successful = false,
\* every write the model then proposes, a new write for the confirmed action's own
\* app included, is surfaced in one proposal event whose total_proposals counts them all.
C14_FailedConfirmedDoesNotBlock ==
    FailedConfirmedThenWrites =>
        /\ Len(ProposalEvents) = 1
        /\ \A p \in Range(ProposalEvents) : p.total_proposals = Len(FollowUpReply)
        /\ Range(ProposalKeys(ProposalEvents)) = {KeyOf(FollowUpReply[k]) : k \in 1..Len(FollowUpReply)}

\* C15: a successful confirmed action short-circuits the loop: the finished turn
\* holds exactly one message event, with content "<App> action completed." and
\* action_performed "<App> action executed", holds no proposal event, and no tool
\* result was sent to the model.
C15_SuccessShortCircuits ==
    (pc = "returned" /\ ConfirmedSucceeded) =>
        LET app_display == format_app_name(confirmed_tool.app_id) IN
        /\ MessageEvents = <<Message(Content("completed", 0, app_display, None), app_display \o " action executed")>>
        /\ ProposalEvents = <<>>
        /\ \A i \in 1..Len(chat_log) : chat_log[i].kind # "tool_result"

\* The collection-relevant fields of a DispatcherContext as run() constructs it.
FreshContext == [involved_apps |-> <<>>, called_apps |-> {}, early_summary_sent |-> FALSE, executed_write_keys |-> {}, completed_write_apps |-> {}, app_read_status |-> [a \in AppIds |-> None], app_write_executing |-> {}, pending_read_actions |-> <<>>]

\* A fresh context carrying the marks of the confirmed action: its dedup key, its
\* app as completed and involved, and the app's read status done.
MarkedContext == [FreshContext EXCEPT !.involved_apps = <<confirmed_tool.app_id>>, !.early_summary_sent = TRUE, !.executed_write_keys = {executed_key(confirmed_tool.tool, confirmed_tool.args)}, !.completed_write_apps = {confirmed_tool.app_id}, !.app_read_status[confirmed_tool.app_id] = "done"]

\* The state after the first Planning pass that follows a successful confirmed
\* execution, before any further model round-trip: response is the model's reply
\* to the result of the confirmed action.
FirstPassAfterConfirmed == ConfirmedSucceeded /\ Len(chat_log) = 2 /\ chat_log[2].ok /\ planning_passes = 1

\* The first Planning pass handled the reply as the collection from context does:
\* its reads are the batch about to be executed, else its writes are the proposal
\* queue and the proposal event, else the turn finishes with a message.
HandledAsFrom(context) ==
    LET acc == collect_actions_from_response(context, response)
        reads == acc.read_actions_to_execute
        writes == acc.write_actions_found
    IN
    IF reads # <<>>
    THEN pc = "executing_read" /\ current_read_action \o pending_read_actions = reads /\ pending_write_actions = writes /\ proposal_queue = <<>>
    ELSE IF writes # <<>>
    THEN /\ pc \in {"awaiting_confirmation", "returned"}
         /\ proposal_queue = queue_pending_write_actions(writes, <<>>)
         /\ pc = "returned" => Last(events) = ProposalEvent(proposal_queue)
    ELSE /\ pc \in {"finished", "returned"}
         /\ proposal_queue = <<>>
         /\ pc = "returned" => Last(events).type = "message"

RateLimited(entry) == ~entry.ok /\ entry.calls = max_retries + 1

\* The turn ended in _handle_read because the round-trip after a read was rate-limited.
ReadFollowUpRateLimited ==
    /\ chat_log # <<>>
    /\ Last(chat_log).kind = "tool_result"
    /\ RateLimited(Last(chat_log))
    /\ broker_calls # <<>>
    /\ Last(broker_calls).purpose = "read"

\* C17: when the round-trip after a read is rate-limited while writes are queued,
\* the writes are flushed in a proposal event, none of them dropped, and the turn
\* then ends with an apology message event.
C17_FlushedThenApology ==
    (ReadFollowUpRateLimited /\ proposal_queue # <<>>) =>
        /\ pending_write_actions = <<>>
        /\ ProposalEvents = <<ProposalEvent(proposal_queue)>>
        /\ Last(events).type = "message"

\* The message events by which the dispatcher reports a persistent rate limit.
RateLimitMessageKinds == {"rate_limited", "completed_rate_limited", "fetched_rate_limited"}

\* C18: whichever round-trip of a turn fails with a rate limit through all retries
\* (initial user message, either nudge, read follow-up, confirmed-action follow-up),
\* the failure is surfaced as a message event that ends the turn: the failed
\* round-trip is the last one, the turn is over and its last event is that message.
C18_RateLimitSurfacedAsMessage ==
    \A i \in 1..Len(chat_log) :
        RateLimited(chat_log[i]) =>
            /\ i = Len(chat_log)
            /\ pc = "returned"
            /\ Last(events).type = "message"
            /\ Last(events).content.kind \in RateLimitMessageKinds

\* A step of _handle_read in which the broker raised or returned successful = False.
FailedReadStep ==
    /\ pc = "executing_read"
    /\ Len(broker_calls') = Len(broker_calls) + 1
    /\ Last(broker_calls').outcome \in {"raise", "unsuccessful", "unsuccessful_dict"}

\* C19: a read whose execution fails is executed once, an error tool_status event
\* is emitted for it, an error payload is sent to the model for it, and when the
\* model replies the turn goes on (to the next read of the batch or to Planning).
C19_FailedReadReported ==
    [][FailedReadStep =>
        /\ \E i \in (Len(events) + 1)..Len(events') :
            /\ events'[i].type = "tool_status"
            /\ events'[i].status = "error"
            /\ events'[i].tool = Last(broker_calls').slug
        /\ Len(chat_log') = Len(chat_log) + 1
        /\ Last(chat_log').kind = "tool_result"
        /\ Last(chat_log').tool = Last(broker_calls').slug
        /\ Last(chat_log').payload = "error"
        /\ Last(chat_log').ok => pc' \in {"executing_read", "planning"}]_vars

(***************************************************************************)
(* Properties of executed_write_keys.                                      *)
(***************************************************************************)
\* The dedup keys of the writes the turn holds queued: the proposal queue, then the
\* writes pending for it.
QueuedKeys == [i \in 1..Len(proposal_queue) |-> executed_key(proposal_queue[i].tool, proposal_queue[i].args.args)] \o [i \in 1..Len(pending_write_actions) |-> executed_key(pending_write_actions[i].tool_name, pending_write_actions[i].args)]

ProposedKeys == ProposalKeys(ProposalEvents)

ConfirmedKey == executed_key(confirmed_tool.tool, confirmed_tool.args)

\* C20: a write whose dedup key is in executed_write_keys is not queued, proposed
\* or executed again in the turn: every step keeps the queued writes and adds only
\* writes whose keys were not in the set, each once; it proposes only queued writes
\* not proposed before; it calls the broker only with a call whose key was not in
\* the set; and the execution of a confirmed action, successful or not, puts the
\* action's key in the set.
C20_ExecutedKeyNeverAgain ==
    [][LET Q == QueuedKeys
           Q2 == QueuedKeys'
           P == ProposedKeys
           P2 == ProposedKeys'
       IN
       /\ Len(Q2) >= Len(Q)
       /\ \A k \in 1..Len(Q) : Q2[k] = Q[k]
       /\ \A k \in (Len(Q) + 1)..Len(Q2) :
            /\ Q2[k] \notin executed_write_keys
            /\ Q2[k] \in executed_write_keys'
            /\ \A j \in (Len(Q) + 1)..Len(Q2) : j # k => Q2[j] # Q2[k]
       /\ \A k \in (Len(P) + 1)..Len(P2) : P2[k] \in Range(Q2) /\ P2[k] \notin Range(P)
       /\ \A k \in (Len(broker_calls) + 1)..Len(broker_calls') : executed_key(broker_calls'[k].slug, broker_calls'[k].arguments) \notin executed_write_keys
       /\ executed_write_keys \subseteq executed_write_keys'
       /\ pc = "confirmed" => ConfirmedKey \in executed_write_keys'
    ]_vars

\* After a confirmed linear write that the broker reported unsuccessful, the model
\* emitted the same write again, and the turn ended without proposing or executing it.
C20_Witness ==
    /\ pc = "returned"
    /\ ConfirmedUnsuccessful
    /\ planning_passes = 1
    /\ \E k \in 1..Len(response.tool_calls) : KeyOf(response.tool_calls[k]) = ConfirmedKey
    /\ ConfirmedKey \in executed_write_keys
    /\ ProposalEvents = <<>>
    /\ Len(broker_calls) = 1

(***************************************************************************)
(* Properties of the classification and gating of tool calls.              *)
(***************************************************************************)
\* The apps of the proposal events evs and of their remaining_proposals entries.
ProposedApps(evs) == UNION {{evs[i].app_id} \cup {evs[i].remaining_proposals[j].app_id : j \in 1..Len(evs[i].remaining_proposals)} : i \in 1..Len(evs)}

KnownApps == {"linear", "slack", "notion", "github", "gmail", "google_calendar"}

\* What the capability service of app_id itself answers for a call; an app without
\* service has nobody to say that the call is a write.
own_is_write_action(app_id, tool_name, args) ==
    CASE app_id = "linear" -> linear_is_write_action(tool_name, args)
      [] app_id = "slack" -> slack_is_write_action(tool_name, args)
      [] app_id = "notion" -> notion_is_write_action(tool_name, args)
      [] app_id = "github" -> github_is_write_action(tool_name, args)
      [] app_id = "gmail" -> gmail_is_write_action(tool_name, args)
      [] app_id = "google_calendar" -> calendar_is_write_action(tool_name, args)
      [] OTHER -> FALSE

\* C22: only the capability service of a call's own app decides that the call is a
\* write: every pending write, and every proposal of the stream, is a call its own
\* app's service classifies as a write, and it was enriched by that service.
C22_OnlyOwnServiceDecides ==
    /\ \A i \in 1..Len(pending_write_actions) :
        LET w == pending_write_actions[i] IN
        /\ own_is_write_action(w.app_id, w.tool_name, w.args)
        /\ enriching_service(w) = w.app_id
    /\ \A i \in 1..Len(ProposalEvents) :
        LET e == ProposalEvents[i] IN
        /\ own_is_write_action(e.app_id, e.tool, e.content.args)
        /\ e.content.enriched_by = e.app_id

\* C23: a call of an app that is none of the known apps is treated as a read: it is
\* never queued as a write nor put into a proposal, and once the model's response
\* has been handled in full the broker has executed it.
C23_UnknownAppFailsOpen ==
    /\ \A i \in 1..Len(pending_write_actions) : pending_write_actions[i].app_id \in KnownApps
    /\ \A i \in 1..Len(proposal_queue) : proposal_queue[i].app_id \in KnownApps
    /\ ProposedApps(ProposalEvents) \subseteq KnownApps
    /\ (pc = "returned" /\ planning_passes = 1 /\ ~HasConfirmedTool) =>
        \A k \in 1..Len(InitialReply) :
            map_tool_to_app(InitialReply[k].name) \notin KnownApps =>
                \E b \in 1..Len(broker_calls) : broker_calls[b].slug = InitialReply[k].name /\ broker_calls[b].arguments = InitialReply[k].args

\* The k-th call of the first response is a slack call the gate deferred: the turn
\* has no confirmed action, so linear's read status was unset, and a linear call
\* stands before it in the response.
DeferredAt(k) ==
    /\ ~HasConfirmedTool
    /\ map_tool_to_app(InitialReply[k].name) = "slack"
    /\ \E j \in 1..(k - 1) : map_tool_to_app(InitialReply[j].name) = "linear"

\* The call tc was executed by the broker (a read) or proposed (a write).
Resumed(tc) ==
    IF WriteClassified(tc.name, tc.args)
    THEN KeyOf(tc) \in Range(ProposedKeys)
    ELSE \E b \in 1..Len(broker_calls) : broker_calls[b].slug = tc.name /\ broker_calls[b].arguments = tc.args

\* C24: a slack read or write the gate deferred is taken up again by a later
\* Planning pass: in a turn that ended with every model round-trip answered and
\* linear's read status done or error, each deferred call has been executed (read)
\* or proposed (write).
C24_DeferredActionResumed ==
    (pc = "returned" /\ (\A i \in 1..Len(chat_log) : chat_log[i].ok) /\ app_read_status["linear"] \in {"done", "error"}) =>
        \A k \in 1..Len(InitialReply) : DeferredAt(k) => Resumed(InitialReply[k])

(***************************************************************************)
(* Properties of the read executor and of the proposal events.             *)
(***************************************************************************)
\* The broker calls the read executor made.
ReadCalls == SelectSeq(broker_calls, LAMBDA b : b.purpose = "read")

\* C25: each loop iteration executes one pending read: between two consecutive
\* Planning passes the broker is called for at most one read, so at no point of the
\* turn has the read executor called the broker more often than Planning passes ran.
C25_OneReadPerPlanningPass == Len(ReadCalls) <= planning_passes

\* The write calls of the responses the dispatcher kept, in the order the model
\* emitted them.
RECURSIVE EmittedWriteKeys(_)
EmittedWriteKeys(log) ==
    IF log = <<>> THEN <<>>
    ELSE LET writes == SelectSeq(Head(log).reply, LAMBDA tc : WriteClassified(tc.name, tc.args))
         IN [k \in 1..Len(writes) |-> KeyOf(writes[k])] \o EmittedWriteKeys(Tail(log))

\* Whether a is b with some elements left out.
RECURSIVE IsSubsequence(_, _)
IsSubsequence(a, b) ==
    IF a = <<>> THEN TRUE
    ELSE IF b = <<>> THEN FALSE
    ELSE IF Head(a) = Head(b) THEN IsSubsequence(Tail(a), Tail(b))
    ELSE IsSubsequence(a, Tail(b))

\* The proposal of an event and its remaining_proposals, as one list.
ProposalsOf(e) == <<[tool |-> e.tool, app_id |-> e.app_id, args |-> e.content, tool_call_id |-> e.tool_call_id]>> \o e.remaining_proposals

\* C26: every proposal event is directly preceded by one multi_app_status event,
\* and by no second one: it lists the apps of involved_apps in first-seen order,
\* each with state waiting, and its active_app is the app of the first proposal.
\* The proposal followed by its remaining_proposals is the proposal queue in its
\* order, which is the order in which the model emitted the writes.
C26_StatusBeforeProposal ==
    /\ Len(EventsOfType("multi_app_status")) = Len(ProposalEvents)
    /\ \A i \in 1..Len(events) : events[i].type = "proposal" =>
        /\ i >= 2
        /\ events[i - 1].type = "multi_app_status"
        /\ events[i - 1].apps = [k \in 1..Len(involved_apps) |-> [app_id |-> involved_apps[k], state |-> "waiting"]]
        /\ events[i - 1].active_app = events[i].app_id
        /\ i >= 3 => events[i - 2].type # "multi_app_status"
        /\ ProposalsOf(events[i]) = [k \in 1..Len(proposal_queue) |-> RemainingProposal(proposal_queue[k])]
        /\ IsSubsequence(ProposalKeys(<<events[i]>>), EmittedWriteKeys(chat_log))

\* A proposal event for two writes of a turn with two involved apps, whose first
\* proposal is for the app seen second.
C26_Witness ==
    \E i \in 1..Len(events) :
        /\ events[i].type = "proposal"
        /\ Len(involved_apps) = 2
        /\ events[i].app_id = involved_apps[2]
        /\ Len(events[i].remaining_proposals) = 1
        /\ events[i].remaining_proposals[1].app_id = involved_apps[1]

CallLog == composio.log

Cacheable(call) == normalize_tool_slug(call.slug) \in READ_ONLY_CACHEABLE_TOOLS

SameKey(a, b) == cache_key(a.slug, a.args) = cache_key(b.slug, b.args)

\* Call j is the second call with its tool name and arguments, call i the first,
\* and j comes within the TTL of i.
SecondCallWithinTTL(i, j) ==
    /\ i < j
    /\ SameKey(CallLog[i], CallLog[j])
    /\ \A k \in 1..(j - 1) : SameKey(CallLog[k], CallLog[j]) => k = i
    /\ CallLog[j].at - CallLog[i].at < cache_ttl_seconds

\* C28 as stated: for a cacheable tool the second call with the same tool name and
\* arguments within the TTL returns the result the first call returned and does
\* not invoke the executor; every other first call, and every call of a tool that
\* is not cacheable, invokes the executor.
C28_SecondCallServedFromCache ==
    \A j \in 1..Len(CallLog) :
        /\ ~Cacheable(CallLog[j]) => CallLog[j].executed
        /\ (\A k \in 1..(j - 1) : ~SameKey(CallLog[k], CallLog[j])) => CallLog[j].executed
        /\ \A i \in 1..(j - 1) :
            (Cacheable(CallLog[j]) /\ SecondCallWithinTTL(i, j) /\ ~CallLog[i].raised) =>
                ~CallLog[j].executed /\ CallLog[j].result = CallLog[i].result

\* The earlier calls whose result execute_tool put into the cache under j's key.
CachedBefore(j) == {i \in 1..(j - 1) : SameKey(CallLog[i], CallLog[j]) /\ CallLog[i].executed /\ ~CallLog[i].raised /\ CallLog[i].result.shape \in {"object", "dict_with_data"}}

\* The latest of them.
LatestCached(j) == CHOOSE i \in CachedBefore(j) : \A k \in CachedBefore(j) : k <= i

\* C28 (amended): a call of a cacheable tool is served from the cache, without the
\* executor being invoked, exactly when an earlier call with the same tool name and
\* arguments invoked the executor and got a result that is cached (an object with a
\* data attribute or a dict with data; not a dict without data, not an exception)
\* and the latest such call is less than the TTL ago: then it returns that call's
\* result.  Every other call, and every call of a tool that is not cacheable,
\* invokes the executor.
C28_ServedFromCacheIffCached ==
    \A j \in 1..Len(CallLog) :
        IF Cacheable(CallLog[j]) /\ CachedBefore(j) # {} /\ CallLog[j].at - CallLog[LatestCached(j)].at < cache_ttl_seconds
        THEN ~CallLog[j].executed /\ ~CallLog[j].raised /\ CallLog[j].result = CallLog[LatestCached(j)].result
        ELSE CallLog[j].executed

\* A cacheable call answered from the cache some time after the call that filled it,
\* with the same arguments given in another order.
C28_Witness ==
    /\ Len(CallLog) = 2
    /\ Cacheable(CallLog[1])
    /\ CallLog[1].executed /\ CallLog[1].result.shape = "dict_with_data"
    /\ CallLog[2].args # CallLog[1].args
    /\ CallLog[2].at > CallLog[1].at
    /\ ~CallLog[2].executed
    /\ CallLog[2].result = CallLog[1].result

(***************************************************************************)
(* Properties of _send_message_with_retry.                                 *)
(***************************************************************************)
\* C29: the helper calls send_fn at most max_retries + 1 times; every call but the
\* last one made raised a rate-limit error (it retries for nothing else, and never
\* after a success); it returns success exactly when its last call returned; and
\* when it returns an error, that is the error of its last call, which is either
\* no rate-limit error (no retry was made for it) or the error of call max_retries + 1.
C29_RetriesOnlyRateLimits ==
    retry.returned =>
        LET n == retry.result.calls
            o == retry.outcomes
        IN
        /\ n \in 1..(max_retries + 1)
        /\ \A k \in 1..(n - 1) : o[k] = "rate_limit"
        /\ retry.result.ok <=> o[n] = "ok"
        /\ retry.result.ok => retry.result.error = None
        /\ ~retry.result.ok =>
            /\ retry.result.error = o[n]
            /\ o[n] = "rate_limit" => n = max_retries + 1

\* send_fn raised rate-limit errors on all its max_retries + 1 calls and would have
\* returned on the next one: the helper gave up with the rate-limit error.
C29_Witness ==
    /\ retry.returned
    /\ \A k \in 1..(max_retries + 1) : retry.outcomes[k] = "rate_limit"
    /\ retry.outcomes[max_retries + 2] = "ok"
    /\ retry.result = [ok |-> FALSE, error |-> "rate_limit", calls |-> max_retries + 1]

(***************************************************************************)
(* Properties of the nudges.                                               *)
(***************************************************************************)
\* The nudges of kind sent to the model so far.
NudgesSent(log, kind) == SelectSeq(log, LAMBDA entry : entry.kind = kind)

\* This step sent a nudge and the model answered it.
NudgeAnswered ==
    /\ Len(chat_log') = Len(chat_log) + 1
    /\ Last(chat_log').kind \in {"tool_nudge", "missing_app_nudge"}
    /\ Last(chat_log').ok

\* C30: within one turn the dispatcher sends at most one tool-use nudge and at most
\* one missing-required-app nudge, whatever the model replies; a nudge the model
\* answers adds one to the iteration counter and the dispatcher is back in Planning
\* with the model's new response.
C30_EachNudgeAtMostOnce ==
    [][/\ Len(NudgesSent(chat_log', "tool_nudge")) <= 1
       /\ Len(NudgesSent(chat_log', "missing_app_nudge")) <= 1
       /\ NudgeAnswered =>
            /\ iteration' = iteration + 1
            /\ pc' = "planning"
            /\ response' # response
            /\ response'.tool_calls = Last(chat_log').reply
    ]_vars

\* A finished turn in which the tool-use nudge was sent and answered with tool
\* calls, and the missing-app nudge was then sent and answered.
C30_Witness ==
    /\ pc = "returned"
    /\ \E i, j \in 1..Len(chat_log) :
        /\ i < j
        /\ chat_log[i].kind = "tool_nudge" /\ chat_log[i].ok /\ chat_log[i].reply # <<>>
        /\ chat_log[j].kind = "missing_app_nudge" /\ chat_log[j].ok
    /\ tool_nudge_sent /\ missing_app_nudge_sent
    /\ iteration >= 2

(***************************************************************************)
(* Properties of the dedup and completion marks.                           *)
(***************************************************************************)
\* The execution of the confirmed action failed: the broker raised or returned a
\* result with successful = False.
ConfirmedFailed == ConfirmedRaised \/ ConfirmedUnsuccessful

\* C31: the marks of a confirmed action are added on its success path only: when
\* its execution failed, its dedup key is not in executed_write_keys and its app
\* is not in completed_write_apps.
C31_MarksOnlyOnSuccess ==
    ConfirmedFailed =>
        /\ ConfirmedKey \notin executed_write_keys
        /\ confirmed_tool.app_id \notin completed_write_apps

\* The writes that are pending or queued: tool name, argument dict and call id.
QueuedWrites == [i \in 1..Len(proposal_queue) |-> [tool |-> proposal_queue[i].tool, args |-> proposal_queue[i].args.args, tool_call_id |-> proposal_queue[i].tool_call_id]] \o [i \in 1..Len(pending_write_actions) |-> [tool |-> pending_write_actions[i].tool_name, args |-> pending_write_actions[i].args, tool_call_id |-> pending_write_actions[i].tool_call_id]]

\* The writes of the proposal events: each proposal and its remaining_proposals.
RECURSIVE ProposedWrites(_)
ProposedWrites(evs) ==
    IF evs = <<>> THEN <<>>
    ELSE LET e == Head(evs)
             rest == e.remaining_proposals
         IN (<<[tool |-> e.tool, args |-> e.content.args, tool_call_id |-> e.tool_call_id]>> \o [i \in 1..Len(rest) |-> [tool |-> rest[i].tool, args |-> rest[i].args.args, tool_call_id |-> rest[i].tool_call_id]]) \o ProposedWrites(Tail(evs))

\* Two calls with the same tool name and the same argument map, in whatever key order.
SameCall(a, b) == a.tool = b.tool /\ Range(a.args) = Range(b.args)

\* C32: the dedup key does not depend on the order of the argument keys: a write
\* and the same write with its argument map in another key order have one key,
\* so no two writes with the same tool name and argument map are ever queued, and
\* none is proposed twice.
C32_KeyIgnoresArgumentOrder ==
    /\ executed_key(slackWrite.name, slackWrite.args) = executed_key(slackWriteSwapped.name, slackWriteSwapped.args)
    /\ \A i, j \in 1..Len(QueuedWrites) : SameCall(QueuedWrites[i], QueuedWrites[j]) => i = j
    /\ LET P == ProposedWrites(ProposalEvents) IN \A i, j \in 1..Len(P) : SameCall(P[i], P[j]) => i = j

\* The model emitted the write in one order and then in the other in one response;
\* the turn ended with a single proposal, for the call emitted first.
C32_Witness ==
    /\ pc = "returned"
    /\ InitialReply = <<slackWriteSwapped, slackWrite>>
    /\ planning_passes = 1
    /\ Len(ProposalEvents) = 1
    /\ ProposalEvents[1].total_proposals = 1
    /\ ProposalEvents[1].tool_call_id = slackWriteSwapped.call_id

(***************************************************************************)
(* Properties of the turn's lists and of how a turn ends.                  *)
(***************************************************************************)
IsPrefixOf(a, b) == Len(a) <= Len(b) /\ \A i \in 1..Len(a) : b[i] = a[i]

NoDuplicates(s) == \A i, j \in 1..Len(s) : s[i] = s[j] => i = j

\* C33: involved_apps keeps first-seen order and never holds an app twice: every
\* step of a turn (pre-detection, the confirmed-action runner, each Planning
\* pass) keeps the entries it found, in place, and adds only apps that were absent.
C33_InvolvedAppsFirstSeenOnce ==
    [][IsPrefixOf(involved_apps, involved_apps') /\ NoDuplicates(involved_apps')]_vars

\* A finished confirmed turn with two involved apps, the confirmed app first, in
\* which the model's follow-up response called the confirmed app again.
C33_Witness ==
    /\ pc = "returned"
    /\ ConfirmedExecuted
    /\ Len(involved_apps) = 2
    /\ involved_apps[1] = confirmed_tool.app_id
    /\ \E i \in 1..Len(FollowUpReply) : map_tool_to_app(FollowUpReply[i].name) = confirmed_tool.app_id
    /\ \E i \in 1..Len(FollowUpReply) : map_tool_to_app(FollowUpReply[i].name) = involved_apps[2]

\* C34: every write added to the pending write list during a turn is in a
\* proposal event (as the proposal or among its remaining_proposals) when the turn
\* has ended: no write is left pending or queued without having been proposed.
C34_PendingWritesProposed ==
    pc = "returned" => \A i \in 1..Len(QueuedKeys) : QueuedKeys[i] \in Range(ProposedKeys)

\* The message and proposal events of the turn.
TerminalEvents == SelectSeq(events, LAMBDA e : e.type \in {"message", "proposal"})

\* C35: the event stream of a turn ends with exactly one terminal event, a message
\* or a proposal: a finished turn holds one such event, as its last event, and
\* once it is emitted no event, model round-trip or broker call follows.
C35_OneTerminalEvent ==
    [][/\ pc' = "returned" => (Len(TerminalEvents') = 1 /\ Last(events').type \in {"message", "proposal"})
       /\ TerminalEvents # <<>> => (events' = events /\ chat_log' = chat_log /\ broker_calls' = broker_calls)]_vars

\* A turn whose read follow-up round-trip failed while a write was pending: it
\* ended on the proposal event, its only terminal event, with no final message.
C35_Witness ==
    /\ pc = "returned"
    /\ Len(TerminalEvents) = 1
    /\ Last(events).type = "proposal"
    /\ Last(chat_log).kind = "tool_result"
    /\ ~Last(chat_log).ok
    /\ exit_early

\* The last model round-trip of the turn failed on its first call with an error
\* that is no rate limit.
ModelErrorEnded == pc = "returned" /\ chat_log # <<>> /\ ~Last(chat_log).ok /\ Last(chat_log).calls = 1

\* The failed round-trip was the follow-up to the confirmed action's result.
ConfirmedFollowUpFailed == ConfirmedExecuted /\ Len(chat_log) = 2 /\ Last(chat_log).kind = "tool_result"

\* The message event "An error occurred: <the model client's error>", action_performed null.
AnErrorOccurred == [type |-> "message", content |-> Content("error_occurred", 0, None, "model_error"), action_performed |-> None]

MidBatchStep == pc = "executing_read" /\ pc' = "executing_read" /\ read_actions' # <<>>

\* A step of _handle_read that executes the last read of a batch and gets a response.
BatchEndStep == pc = "executing_read" /\ pc' = "planning"

CalledUpTo(i) == called_apps \cup {map_tool_to_app(response.tool_calls[k].name) : k \in 1..i}

\* The i-th call of the response is a chat-app call placed at or after a call of
\* the issue tracker (in this response or an earlier one of the turn) while the
\* issue tracker's read status is not done or error, or it is mid-write.
GatedAt(i) ==
    /\ map_tool_to_app(response.tool_calls[i].name) = "slack"
    /\ "linear" \in CalledUpTo(i)
    /\ (app_read_status["linear"] \notin {"done", "error"} \/ "linear" \in app_write_executing)

\* The reads of the response from its i-th call on that are not gated, in order.
RECURSIVE UngatedReads(_)
UngatedReads(i) ==
    IF i > Len(response.tool_calls) THEN <<>>
    ELSE LET tc == response.tool_calls[i]
         IN (IF ~WriteClassified(tc.name, tc.args) /\ ~GatedAt(i) THEN <<ReadAction(tc, map_tool_to_app(tc.name))>> ELSE <<>>) \o UngatedReads(i + 1)

C39_NoResultAcrossUsers ==
    \A j \in 1..Len(CallLog) :
        CallLog[j].result # NoResult => composio.executor_users[CallLog[j].result.id] = CallLog[j].user_id

\* C40: at every Planning pass no app is mid-write-execution: app_write_executing
\* is empty whenever a response is about to be classified, so the gate's
\* mid-write-execution condition never holds.
C40_NoWriteExecutingAtPlanning ==
    pc = "planning" => app_write_executing = {}

\* A Planning pass right after a confirmed linear write was executed, about to
\* classify a response that holds a slack call.
C40_Witness ==
    /\ pc = "planning"
    /\ ConfirmedExecuted
    /\ confirmed_tool.app_id = "linear"
    /\ planning_passes = 0
    /\ \E i \in 1..Len(response.tool_calls) : map_tool_to_app(response.tool_calls[i].name) = "slack"
    /\ app_write_executing = {}

====
